---- MODULE Spec2Model ----
(***************************************************************************)
(* Hydration state engine of the one-bottle water tracker.                 *)
(*                                                                         *)
(* The repository carries two revisions of the application component:      *)
(*   build "rhythm"  - src/unnamed/part_001 : day keyed by the wake time,  *)
(*                     365-day log, rhythm windows, nudges;                *)
(*   build "classic" - src/src/App.tsx      : day keyed by the sleep time, *)
(*                     14-day log, no rhythm tracker.                      *)
(* The model runs either revision; the variable build says which.          *)
(*                                                                         *)
(* Conventions                                                             *)
(*   instants   whole minutes of elapsed time since an epoch (Date's       *)
(*              getTime); local time is the instant plus the zone's offset *)
(*              at that instant. The zone is fixed-offset, or has one      *)
(*              transition (clocks forward, or back, by an hour at 02:00). *)
(*              Spec, SpecHist and SpecLive run in the fixed-offset zone;  *)
(*              SpecDay runs the day-key functions in all three zones;     *)
(*   DayKey     the number of the local calendar day, standing for the     *)
(*              "YYYY-MM-DD" string (string order = numeric order);        *)
(*   fractions  integers in units of 1/FracDen, so 1.0 is FracDen and the  *)
(*              completion threshold 0.0001 is the integer 1;              *)
(*   volumes    integer millilitres; Math.round is RoundDiv.               *)
(***************************************************************************)
EXTENDS Integers, Sequences, FiniteSets, TLC

VARIABLES build, zone, now, state, lowLevelTracked, timerAt, events, afterCall, run, lastOp,
          morning, nudge, svc, est

vars == <<build, zone, now, state, lowLevelTracked, timerAt, events, afterCall, run, lastOp,
          morning, nudge, svc, est>>

\* The morning prompt, the nudge bookkeeping, the notification service and the
\* fill estimation: left alone by the handlers of the consumption engine.
side == <<morning, nudge, svc, est>>

\* ------------------------------------------------------------------ bounds
Start0 == 10 * 1440 + 1200
MaxEvents == 4
WarmLen == 48
DaySteps == 143
TickSteps == {720}
Fractions == {0, 1, 1000, 5000}
ExtraChoices == {250}
GoalChoices == {500, 2000}
BottleChoices == {500, 750}
WakeChoices == {480, 720}
SleepInputs == {1320, 60}

\* ------------------------------------------------------- program constants
FracDen == 10000
EmptyEps == 1
MaxML == 100000
HistoryCap == 50
RhythmMinMl == 120
RetentionRhythm == 365
RetentionClassic == 14
DayMins == 1440

\* ------------------------------------------------------------- arithmetic
Max(a, b) == IF a >= b THEN a ELSE b

Min(a, b) == IF a <= b THEN a ELSE b

\* Math.round(n / d) for d > 0: halves round toward +infinity.
RoundDiv(n, d) == (2 * n + d) \div (2 * d)

clamp(n, a, b) == Max(a, Min(b, n))

ceilDiv(a, b) == IF b <= 0 THEN 0 ELSE -((-a) \div b)

\* -------------------------------------------------------------- day keys
\* The local clock of the Date API. TransAt is the instant of the zone's one
\* offset change (02:00 local on day 11).
TransAt == 11 * 1440 + 120

OffsetAfter == IF zone = "forward" THEN 60 ELSE IF zone = "back" THEN -60 ELSE 0

Offset(d) == IF d >= TransAt THEN OffsetAfter ELSE 0

\* The local fields a Date shows (getFullYear .. getMinutes), as local minutes.
Local(d) == d + Offset(d)

\* The instant the Date setters produce from local fields: a local time that
\* occurs twice is the earlier instant, one that is skipped is read with the
\* offset in force before the change.
FromLocal(l) == IF l < TransAt THEN l ELSE IF l - OffsetAfter >= TransAt THEN l - OffsetAfter ELSE l

dayKey(d) == Local(d) \div DayMins

wakeBoundaryMins(wakeMins) == ((wakeMins % DayMins) + DayMins) % DayMins

dayKeyByWake(d, wakeMins) == dayKey(d - wakeBoundaryMins(wakeMins))

prevDayKeyByWake(d, wakeMins) ==
  LET shifted == d - wakeBoundaryMins(wakeMins)
  IN dayKey(FromLocal(Local(shifted) - DayMins))

msUntilNextWake(d, wakeMins) ==
  LET boundary == wakeBoundaryMins(wakeMins)
      midnight == FromLocal(dayKey(d) * DayMins)
      next0 == FromLocal(Local(midnight) + boundary)
      next == IF d >= next0 THEN FromLocal(Local(next0) + DayMins) ELSE next0
  IN Max(0, next - d)

sleepBoundaryMins(sleepMins) == ((sleepMins % DayMins) + DayMins) % DayMins

dayKeyBySleep(d, sleepMins) == dayKey(d - sleepBoundaryMins(sleepMins))

prevDayKeyBySleep(d, sleepMins) ==
  LET shifted == d - sleepBoundaryMins(sleepMins)
  IN dayKey(FromLocal(Local(shifted) - DayMins))

msUntilNextSleep(d, sleepMins) ==
  LET boundary == sleepBoundaryMins(sleepMins)
      midnight == FromLocal(dayKey(d) * DayMins)
      next0 == FromLocal(Local(midnight) + boundary)
      next == IF d >= next0 THEN FromLocal(Local(next0) + DayMins) ELSE next0
  IN Max(0, next - d)

\* The day key each revision computes for instant d under configuration s.
TodayKey(s, d) ==
  IF build = "rhythm" THEN dayKeyByWake(d, s.wakeMins) ELSE dayKeyBySleep(d, s.sleepMins)

MsUntilNextBoundary(s, d) ==
  IF build = "rhythm" THEN msUntilNextWake(d, s.wakeMins) ELSE msUntilNextSleep(d, s.sleepMins)

PrevDayKey(s, d) ==
  IF build = "rhythm" THEN prevDayKeyByWake(d, s.wakeMins) ELSE prevDayKeyBySleep(d, s.sleepMins)

\* ------------------------------------------------------ consumption state
NoCelebrate == [type |-> "none", pct |-> 0, consumedML |-> 0]

Zero5 == <<0, 0, 0, 0, 0>>

NoIdx == -1

makeDefaultState(d) ==
  [goalML |-> 2000, bottleML |-> 500, wakeMins |-> 480, sleepMins |-> 1320,
   dayKey |-> IF build = "rhythm" THEN dayKeyByWake(d, 480) ELSE dayKeyBySleep(d, 1320),
   completedBottles |-> 0, remaining |-> FracDen,
   carryML |-> 0, extraML |-> 0, dailyLog |-> [k \in {} |-> 0], history |-> <<>>,
   celebrate |-> NoCelebrate]

\* Variant: the sum without the clamp to the goal.
totalConsumedUnclamped(s) ==
  LET n == ceilDiv(s.goalML, s.bottleML)
      completed == clamp(s.completedBottles, 0, n) * s.bottleML
      consumedCurrent == RoundDiv((FracDen - s.remaining) * s.bottleML, FracDen)
  IN completed + consumedCurrent + clamp(s.carryML, 0, MaxML) + clamp(s.extraML, 0, MaxML)

totalConsumedFromState(s) ==
  LET n == ceilDiv(s.goalML, s.bottleML)
      completed == clamp(s.completedBottles, 0, n) * s.bottleML
      consumedCurrent == RoundDiv((FracDen - s.remaining) * s.bottleML, FracDen)
      carry == clamp(s.carryML, 0, MaxML)
      extra == clamp(s.extraML, 0, MaxML)
  IN Min(s.goalML, completed + consumedCurrent + carry + extra)

\* Variant: the cap test off by one (the last bottle of the day never counts).
advanceBottleOffByOne(s) ==
  LET n == ceilDiv(s.goalML, s.bottleML)
  IN IF n <= 0 THEN s
     ELSE [s EXCEPT !.completedBottles = IF @ + 1 < n THEN @ + 1 ELSE @,
                    !.remaining = FracDen]

advanceBottle(s) ==
  LET n == ceilDiv(s.goalML, s.bottleML)
  IN IF n <= 0 THEN s
     ELSE [s EXCEPT !.completedBottles = IF @ < n THEN @ + 1 ELSE @,
                    !.remaining = FracDen]

\* The in-place reset setRemaining and addExtra perform on a stale day.
FreshDay(s, today) ==
  [s EXCEPT !.dayKey = today, !.completedBottles = 0, !.remaining = FracDen,
            !.carryML = 0, !.extraML = 0, !.history = <<>>, !.celebrate = NoCelebrate]

\* ------------------------------------------------------------- daily log
EmptyLog == [k \in {} |-> 0]

PutLog(log, k, e) == [j \in (DOMAIN log) \cup {k} |-> IF j = k THEN e ELSE log[j]]

\* keys.sort().slice(-n): the n greatest keys are kept.
PruneLog(log, n) ==
  LET keep == {k \in DOMAIN log : Cardinality({j \in DOMAIN log : j > k}) < n}
  IN [k \in keep |-> log[k]]

Retention == IF build = "rhythm" THEN RetentionRhythm ELSE RetentionClassic

\* The end-of-day snapshot object the rollover writes (no window arrays).
Snapshot(s, d) ==
  [consumedML |-> totalConsumedFromState(s), goalML |-> s.goalML, bottleML |-> s.bottleML,
   carryML |-> s.carryML, extraML |-> s.extraML, at |-> d,
   hasWindows |-> FALSE, windowHitCounts |-> Zero5, windowConsumedML |-> Zero5,
   lastEventAt |-> NoIdx]

\* Variant: a rollover that keeps the undo history of the day it closes.
resetKeepingHistory(s, d) ==
  LET today == TodayKey(s, d)
      nextLog == PutLog(s.dailyLog, s.dayKey, Snapshot(s, d))
  IN IF s.dayKey = today THEN s
     ELSE [s EXCEPT !.dailyLog = PruneLog(nextLog, Retention), !.dayKey = today,
                    !.completedBottles = 0, !.remaining = FracDen, !.carryML = 0,
                    !.extraML = 0, !.celebrate = NoCelebrate]

\* Variant: the day test inverted, so a stale day is left alone.
resetWhenCurrent(s, d) ==
  LET today == TodayKey(s, d)
      nextLog == PutLog(s.dailyLog, s.dayKey, Snapshot(s, d))
  IN IF s.dayKey # today THEN s
     ELSE [s EXCEPT !.dailyLog = PruneLog(nextLog, Retention), !.dayKey = today,
                    !.completedBottles = 0, !.remaining = FracDen, !.carryML = 0,
                    !.extraML = 0, !.history = <<>>, !.celebrate = NoCelebrate]

resetToTodayIfNeeded(s, d) ==
  LET today == TodayKey(s, d)
      nextLog == PutLog(s.dailyLog, s.dayKey, Snapshot(s, d))
  IN IF s.dayKey = today THEN s
     ELSE [s EXCEPT !.dailyLog = PruneLog(nextLog, Retention), !.dayKey = today,
                    !.completedBottles = 0, !.remaining = FracDen, !.carryML = 0,
                    !.extraML = 0, !.history = <<>>, !.celebrate = NoCelebrate]

\* ---------------------------------------------------------- rhythm windows
getHydrationWindowBoundsForDayKey(key, wakeMins, sleepMins) ==
  LET base == key * DayMins
      end0 == FromLocal(base + (sleepMins % DayMins))
  IN [start |-> FromLocal(base + wakeMins),
      end |-> IF sleepMins < wakeMins THEN FromLocal(Local(end0) + DayMins) ELSE end0]

getRhythmWindowIndexForDayKey(atMs, key, wakeMins, sleepMins) ==
  LET b == getHydrationWindowBoundsForDayKey(key, wakeMins, sleepMins)
      total == b.end - b.start
      elapsed == clamp(atMs - b.start, 0, total - 1)
  IN IF total <= 0 THEN 0
     ELSE IF atMs >= b.end THEN 4
     ELSE Min(4, Max(0, (5 * elapsed) \div total))

WindowsOf(log, key) ==
  IF key \in DOMAIN log /\ log[key].hasWindows
  THEN [hits |-> log[key].windowHitCounts, ml |-> log[key].windowConsumedML]
  ELSE [hits |-> Zero5, ml |-> Zero5]

\* Variant: every event counts as a hit, whatever its volume.
updateDailyLogEveryEvent(s, atMs, deltaMl) ==
  LET key == dayKeyByWake(atMs, s.wakeMins)
      w == WindowsOf(s.dailyLog, key)
      idx == getRhythmWindowIndexForDayKey(atMs, key, s.wakeMins, s.sleepMins) + 1
  IN PutLog(s.dailyLog, key,
       [consumedML |-> totalConsumedFromState(s), goalML |-> s.goalML,
        bottleML |-> s.bottleML, carryML |-> s.carryML, extraML |-> s.extraML,
        at |-> IF key \in DOMAIN s.dailyLog THEN s.dailyLog[key].at ELSE atMs,
        hasWindows |-> TRUE,
        windowHitCounts |-> [w.hits EXCEPT ![idx] = Max(0, @ + 1)],
        windowConsumedML |-> [w.ml EXCEPT ![idx] = Max(0, @ + deltaMl)],
        lastEventAt |-> atMs])

updateDailyLogRhythm(s, atMs, deltaMl) ==
  LET key == dayKeyByWake(atMs, s.wakeMins)
      w == WindowsOf(s.dailyLog, key)
      idx == getRhythmWindowIndexForDayKey(atMs, key, s.wakeMins, s.sleepMins) + 1
      hit == deltaMl >= RhythmMinMl
      hits == IF hit THEN [w.hits EXCEPT ![idx] = Max(0, @ + 1)] ELSE w.hits
      mls == IF hit THEN [w.ml EXCEPT ![idx] = Max(0, @ + deltaMl)] ELSE w.ml
  IN PutLog(s.dailyLog, key,
       [consumedML |-> totalConsumedFromState(s), goalML |-> s.goalML,
        bottleML |-> s.bottleML, carryML |-> s.carryML, extraML |-> s.extraML,
        at |-> IF key \in DOMAIN s.dailyLog THEN s.dailyLog[key].at ELSE atMs,
        hasWindows |-> TRUE, windowHitCounts |-> hits, windowConsumedML |-> mls,
        lastEventAt |-> atMs])

\* ---------------------------------------------------------------- history
\* Variant: slice(0, n) in place of slice(-n), keeping the oldest entries.
FirstN(seq, n) == IF Len(seq) <= n THEN seq ELSE SubSeq(seq, 1, n)

LastN(seq, n) == IF Len(seq) <= n THEN seq ELSE SubSeq(seq, Len(seq) - n + 1, Len(seq))

HistoryEntry(s, d, action, ml, idx, mlDelta) ==
  [t |-> d, prevRemaining |-> s.remaining, prevCompleted |-> s.completedBottles,
   prevCarry |-> s.carryML, prevExtra |-> s.extraML, action |-> action, ml |-> ml,
   rhythmWindowIndex |-> idx, rhythmDelta |-> IF idx = NoIdx THEN 0 ELSE 1,
   rhythmMlDelta |-> IF idx = NoIdx THEN 0 ELSE mlDelta]

\* Variant: the bottle celebration taking priority over the goal celebration.
CelebrationBottleFirst(s, action, prev, r) ==
  LET afterConsumed == totalConsumedFromState(s)
      pct == IF s.goalML > 0 THEN RoundDiv(afterConsumed * 100, s.goalML) ELSE 0
      didEmptyBottle == action = "track" /\ prev > EmptyEps /\ r <= EmptyEps
      hitGoal == action = "track" /\ s.goalML > 0 /\ afterConsumed >= s.goalML
  IN IF action = "track" /\ (hitGoal \/ didEmptyBottle)
     THEN [type |-> IF didEmptyBottle THEN "bottle" ELSE "goal", pct |-> clamp(pct, 0, 100),
           consumedML |-> afterConsumed]
     ELSE s.celebrate

Celebration(s, action, prev, r) ==
  LET afterConsumed == totalConsumedFromState(s)
      pct == IF s.goalML > 0 THEN RoundDiv(afterConsumed * 100, s.goalML) ELSE 0
      didEmptyBottle == action = "track" /\ prev > EmptyEps /\ r <= EmptyEps
      hitGoal == action = "track" /\ s.goalML > 0 /\ afterConsumed >= s.goalML
  IN IF action = "track" /\ (hitGoal \/ didEmptyBottle)
     THEN [type |-> IF hitGoal THEN "goal" ELSE "bottle", pct |-> clamp(pct, 0, 100),
           consumedML |-> afterConsumed]
     ELSE s.celebrate

\* ------------------------------------------------- mutations, build rhythm
setRemaining(s, nextRemaining, action, d) ==
  LET today == dayKeyByWake(d, s.wakeMins)
      ss == IF s.dayKey # today THEN FreshDay(s, today) ELSE s
      beforeConsumed == totalConsumedFromState(ss)
      r == clamp(nextRemaining, 0, FracDen)
      s1 == [ss EXCEPT !.remaining = r]
      s2 == IF r <= EmptyEps THEN advanceBottle(s1) ELSE s1
      afterConsumed == totalConsumedFromState(s2)
      rhythmDelta == Max(0, afterConsumed - beforeConsumed)
      idx == IF rhythmDelta >= RhythmMinMl
             THEN getRhythmWindowIndexForDayKey(d, dayKeyByWake(d, ss.wakeMins),
                                                ss.wakeMins, ss.sleepMins)
             ELSE NoIdx
      entry == HistoryEntry(ss, d, action, 0, idx, rhythmDelta)
      s3 == [s2 EXCEPT !.history = LastN(Append(ss.history, entry), HistoryCap)]
      s4 == IF action = "track"
            THEN [s3 EXCEPT !.dailyLog = updateDailyLogRhythm(s3, d, rhythmDelta)]
            ELSE s3
  IN [s4 EXCEPT !.celebrate = Celebration(s4, action, ss.remaining, r)]

\* Variant: the extra volume booked on carryML instead of extraML.
addExtraIntoCarry(s, ml, d) ==
  LET today == dayKeyByWake(d, s.wakeMins)
      ss == IF s.dayKey # today THEN FreshDay(s, today) ELSE s
      idx == IF ml >= RhythmMinMl
             THEN getRhythmWindowIndexForDayKey(d, dayKeyByWake(d, ss.wakeMins),
                                                ss.wakeMins, ss.sleepMins)
             ELSE NoIdx
      entry == HistoryEntry(ss, d, "extra", ml, idx, ml)
      next == [ss EXCEPT !.carryML = clamp(ss.carryML + ml, 0, MaxML),
                         !.history = LastN(Append(ss.history, entry), HistoryCap)]
  IN [next EXCEPT !.dailyLog = updateDailyLogRhythm(next, d, ml)]

addExtra(s, ml, d) ==
  LET today == dayKeyByWake(d, s.wakeMins)
      ss == IF s.dayKey # today THEN FreshDay(s, today) ELSE s
      nextExtra == clamp(ss.extraML + ml, 0, MaxML)
      idx == IF ml >= RhythmMinMl
             THEN getRhythmWindowIndexForDayKey(d, dayKeyByWake(d, ss.wakeMins),
                                                ss.wakeMins, ss.sleepMins)
             ELSE NoIdx
      entry == HistoryEntry(ss, d, "extra", ml, idx, ml)
      next == [ss EXCEPT !.extraML = nextExtra,
                         !.history = LastN(Append(ss.history, entry), HistoryCap)]
  IN [next EXCEPT !.dailyLog = updateDailyLogRhythm(next, d, ml)]

\* Variant: an undo that restores the volumes and leaves the daily log alone.
undoVolumesOnly(s, d) ==
  LET h == s.history
      last == h[Len(h)]
  IN IF Len(h) = 0 THEN s
     ELSE [s EXCEPT !.remaining = last.prevRemaining,
                    !.completedBottles = last.prevCompleted,
                    !.carryML = last.prevCarry, !.extraML = last.prevExtra,
                    !.history = SubSeq(h, 1, Len(h) - 1)]

undo(s, d) ==
  LET h == s.history
      last == h[Len(h)]
      nextState == [s EXCEPT !.remaining = last.prevRemaining,
                             !.completedBottles = last.prevCompleted,
                             !.carryML = last.prevCarry, !.extraML = last.prevExtra,
                             !.history = SubSeq(h, 1, Len(h) - 1)]
      key == dayKeyByWake(last.t, nextState.wakeMins)
      has == key \in DOMAIN nextState.dailyLog
      day == nextState.dailyLog[key]
      w == WindowsOf(nextState.dailyLog, key)
      i == last.rhythmWindowIndex + 1
      hits == [w.hits EXCEPT ![i] = Max(0, @ - last.rhythmDelta)]
      mls == IF last.rhythmMlDelta > 0
             THEN [w.ml EXCEPT ![i] = Max(0, @ - last.rhythmMlDelta)] ELSE w.ml
      rec == [consumedML |-> totalConsumedFromState(nextState),
              goalML |-> IF has THEN day.goalML ELSE nextState.goalML,
              bottleML |-> IF has THEN day.bottleML ELSE nextState.bottleML,
              carryML |-> IF has THEN day.carryML ELSE nextState.carryML,
              extraML |-> IF has THEN day.extraML ELSE nextState.extraML,
              at |-> IF has THEN day.at ELSE last.t,
              hasWindows |-> TRUE, windowHitCounts |-> hits, windowConsumedML |-> mls,
              lastEventAt |-> last.t]
  IN IF Len(h) = 0 THEN s
     ELSE IF last.rhythmWindowIndex # NoIdx
     THEN [nextState EXCEPT !.dailyLog = PutLog(nextState.dailyLog, key, rec)]
     ELSE nextState

\* ------------------------------------------------ mutations, build classic
setRemainingClassic(s, nextRemaining, action, d) ==
  LET today == dayKeyBySleep(d, s.sleepMins)
      ss == IF s.dayKey # today THEN FreshDay(s, today) ELSE s
      r == clamp(nextRemaining, 0, FracDen)
      entry == HistoryEntry(ss, d, action, 0, NoIdx, 0)
      history == LastN(Append(ss.history, entry), HistoryCap)
      s1 == [ss EXCEPT !.remaining = r, !.history = history]
      s2 == IF r <= EmptyEps THEN [advanceBottle(s1) EXCEPT !.history = history] ELSE s1
  IN [s2 EXCEPT !.celebrate = Celebration(s2, action, ss.remaining, r)]

addExtraClassic(s, ml, d) ==
  LET today == dayKeyBySleep(d, s.sleepMins)
      ss == IF s.dayKey # today THEN FreshDay(s, today) ELSE s
      entry == HistoryEntry(ss, d, "extra", ml, NoIdx, 0)
  IN [ss EXCEPT !.extraML = clamp(ss.extraML + ml, 0, MaxML),
                !.history = LastN(Append(ss.history, entry), HistoryCap)]

undoClassic(s) ==
  LET h == s.history
      last == h[Len(h)]
  IN IF Len(h) = 0 THEN s
     ELSE [s EXCEPT !.remaining = last.prevRemaining,
                    !.completedBottles = last.prevCompleted,
                    !.carryML = last.prevCarry, !.extraML = last.prevExtra,
                    !.history = SubSeq(h, 1, Len(h) - 1)]

\* --------------------------------------------- operations of either build
\* commitScanToDailyProgress: the one caller of setRemaining, always "track".
commitScanToDailyProgress(s, scannedFraction, d) ==
  IF build = "rhythm" THEN setRemaining(s, scannedFraction, "track", d)
  ELSE setRemainingClassic(s, scannedFraction, "track", d)

AddExtraOp(s, ml, d) ==
  IF build = "rhythm" THEN addExtra(s, ml, d) ELSE addExtraClassic(s, ml, d)

UndoOp(s, d) == IF build = "rhythm" THEN undo(s, d) ELSE undoClassic(s)

\* Variant: the whole total moved to carryML, completed bottles not deducted.
handleRefillCarryAll(s, pendingRemaining, d) ==
  LET c == commitScanToDailyProgress(s, pendingRemaining, d)
      consumed == totalConsumedFromState(c)
      pct == IF c.goalML > 0 THEN RoundDiv(consumed * 100, c.goalML) ELSE 0
  IN [c EXCEPT !.celebrate = [type |-> "bottle", pct |-> clamp(pct, 0, 100),
                              consumedML |-> consumed],
               !.carryML = clamp(consumed, 0, MaxML), !.remaining = FracDen]

handleRefill(s, pendingRemaining, d) ==
  LET c == commitScanToDailyProgress(s, pendingRemaining, d)
      consumed == totalConsumedFromState(c)
      pct == IF c.goalML > 0 THEN RoundDiv(consumed * 100, c.goalML) ELSE 0
      completed == clamp(c.completedBottles, 0, ceilDiv(c.goalML, c.bottleML))
      extra == clamp(c.extraML, 0, MaxML)
      newCarry == clamp(consumed - completed * c.bottleML - extra, 0, MaxML)
  IN [c EXCEPT !.celebrate = [type |-> "bottle", pct |-> clamp(pct, 0, 100),
                              consumedML |-> consumed],
               !.carryML = newCarry, !.remaining = FracDen]

switchBottleKeepingConsumed(s) ==
  [s EXCEPT !.completedBottles = 0, !.remaining = FracDen,
            !.carryML = totalConsumedFromState(s), !.extraML = 0,
            !.history = <<>>, !.celebrate = NoCelebrate]

\* ------------------------------------------------------------ the machine
\* -------------------------------------------- prompt and notification state
NoKey == -1

\* lastMorningResetToken: the calendar day and wake minute of the last
\* confirmed morning reset ("YYYY-MM-DD-wake"), NoToken for null.
NoToken == [key |-> NoKey, wake |-> NoKey]

MorningOff == [show |-> FALSE, token |-> NoToken]

NudgeOff ==
  [lastAppOpenDayKey |-> NoKey, lastRefillOrLogDayKey |-> NoKey, lastRefillOrLogAt |-> NoKey,
   lastBehindNudgeDayKey |-> NoKey, behindNudgeScheduledDayKey |-> NoKey,
   behindNudgeScheduledAtMs |-> NoKey, lastEarlyBehindFiredAt |-> NoKey,
   lastLateBehindDayKey |-> NoKey, lastPraiseDateKey |-> NoKey]

\* The notification service: the trigger times of the pending notifications
\* 1002 (early), 1003 (late) and 1004 (praise), how the service answers, the
\* asynchronous calls of the app that have not returned yet, and the
\* notifications delivered so far.
SvcOff ==
  [mounted |-> FALSE, mode |-> "ok", early |-> NoKey, late |-> NoKey, praise |-> NoKey,
   calls |-> {}, delivered |-> {}, error |-> FALSE]
\* The fill estimation: where estimatePercentFull stands, the attempt it is
\* in, the requests issued and the responses received so far, the clock in
\* ms, the wait it planned and the time it really slept, and what the caller
\* got: a percentage, or an error with the wait time it carries.
EstOff ==
  [phase |-> "idle", attempt |-> 0, requests |-> 0, responses |-> <<>>, clock |-> 0,
   waitMs |-> NoKey, lastWaitMs |-> NoKey, slept |-> NoKey, received |-> NoKey,
   result |-> NoKey, error |-> "none", retryAfterMs |-> NoKey, cooldownUntil |-> NoKey]

Stale(s, d) == s.dayKey # TodayKey(s, d)

\* lastOp records the handler that ran last (none since the clock advanced):
\* its name and argument, the state it was invoked in, whether that state was
\* stale, whether the handler before it was a setBottleLevel/addExtra call, and,
\* for an undo (or the dismissal of the celebration before it), the call it
\* directly follows, the state that call was invoked in and whether it was stale;
\* for a bottle switch (or the size edits before it), the state in which the
\* first of the size edits it directly follows was made.
Op(name, arg) ==
  [op |-> name, arg |-> arg, stale |-> Stale(state, now), pre |-> state,
   afterCall |-> afterCall, undid |-> "none", base |-> makeDefaultState(Start0),
   baseStale |-> FALSE]

\* No handler has run since the clock last advanced.
Idle ==
  [op |-> "idle", arg |-> 0, stale |-> FALSE, pre |-> makeDefaultState(Start0),
   afterCall |-> FALSE, undid |-> "none", base |-> makeDefaultState(Start0),
   baseStale |-> FALSE]

Calls == {"setBottleLevel", "addExtra"}

Init ==
  /\ build \in {"rhythm", "classic"}
  /\ zone = "fixed"
  /\ now = Start0
  /\ state = makeDefaultState(Start0)
  /\ lowLevelTracked = FALSE
  /\ timerAt = Start0 + MsUntilNextBoundary(makeDefaultState(Start0), Start0)
  /\ events = 0
  /\ afterCall = FALSE
  /\ run = 0
  /\ lastOp = Idle
  /\ morning = MorningOff
  /\ nudge = NudgeOff
  /\ svc = SvcOff
  /\ est = EstOff

\* Wall-clock time passes (the device may be asleep: no handler runs).
Tick ==
  \E step \in TickSteps :
    /\ events < MaxEvents
    /\ events' = events + 1
    /\ now' = now + step
    /\ lastOp' = Idle
    /\ run' = -1
    /\ UNCHANGED <<build, zone, state, lowLevelTracked, timerAt, afterCall>>
    /\ UNCHANGED side

\* The user is on the main screen: no celebration modal covers it.
MainScreen == state.celebrate = NoCelebrate

\* Track button: commits the pending fraction (disabled when it equals remaining).
Track ==
  \E f \in Fractions :
    /\ MainScreen
    /\ f # state.remaining
    /\ events < MaxEvents
    /\ events' = events + 1
    /\ state' = commitScanToDailyProgress(state, f, now)
    /\ lowLevelTracked' = (f * 10 <= FracDen)
    /\ lastOp' = Op("setBottleLevel", f)
    /\ run' = IF f = 0 /\ run >= 0 /\ ~Stale(state, now) THEN run + 1 ELSE -1
    /\ afterCall' = TRUE
    /\ UNCHANGED <<build, zone, now, timerAt>>
    /\ UNCHANGED side

QuickAdd ==
  \E ml \in ExtraChoices :
    /\ MainScreen
    /\ events < MaxEvents
    /\ events' = events + 1
    /\ state' = AddExtraOp(state, ml, now)
    /\ lastOp' = Op("addExtra", ml)
    /\ afterCall' = TRUE
    /\ run' = -1
    /\ UNCHANGED <<build, zone, now, lowLevelTracked, timerAt>>
    /\ UNCHANGED side

Undo ==
  /\ MainScreen
  /\ events < MaxEvents
  /\ events' = events + 1
  /\ state' = UndoOp(state, now)
  /\ lowLevelTracked' = FALSE
  /\ lastOp' = IF lastOp.op \in Calls
               THEN [Op("undo", 0) EXCEPT !.undid = lastOp.op, !.base = lastOp.pre,
                                          !.baseStale = lastOp.stale]
               ELSE IF lastOp.op = "dismiss"
               THEN [Op("undo", 0) EXCEPT !.undid = lastOp.undid, !.base = lastOp.base,
                                          !.baseStale = lastOp.baseStale]
               ELSE Op("undo", 0)
  /\ afterCall' = FALSE
  /\ run' = -1
  /\ UNCHANGED <<build, zone, now, timerAt>>
  /\ UNCHANGED side

\* Refill button: replaces Track once a low level (<= 0.1) has been tracked
\* and the pending level still is that level.
Refill ==
  /\ MainScreen
  /\ lowLevelTracked
  /\ state.remaining * 10 <= FracDen
  /\ events < MaxEvents
  /\ events' = events + 1
  /\ state' = handleRefill(state, state.remaining, now)
  /\ lowLevelTracked' = FALSE
  /\ lastOp' = Op("refill", state.remaining)
  /\ afterCall' = FALSE
  /\ run' = -1
  /\ UNCHANGED <<build, zone, now, timerAt>>
  /\ UNCHANGED side

DismissCelebrate ==
  /\ state.celebrate # NoCelebrate
  /\ state' = [state EXCEPT !.celebrate = NoCelebrate]
  /\ lowLevelTracked' = IF state.celebrate.type = "bottle" THEN FALSE ELSE lowLevelTracked
  /\ lastOp' = IF lastOp.op \in Calls
               THEN [Op("dismiss", 0) EXCEPT !.undid = lastOp.op, !.base = lastOp.pre,
                                             !.baseStale = lastOp.stale]
               ELSE Op("dismiss", 0)
  /\ afterCall' = afterCall
  /\ UNCHANGED <<build, zone, now, events, timerAt, run>>
  /\ UNCHANGED side

\* Bottle-size screen: the input edits bottleML live; Continue switches.
EditBottleML ==
  \E v \in BottleChoices :
    /\ MainScreen
    /\ events < MaxEvents
    /\ v # state.bottleML
    /\ state' = [state EXCEPT !.bottleML = v]
    /\ events' = events + 1
    /\ lastOp' = [Op("editBottle", v) EXCEPT
                    !.base = IF lastOp.op = "editBottle" THEN lastOp.base ELSE state]
    /\ afterCall' = FALSE
    /\ run' = -1
    /\ UNCHANGED <<build, zone, now, lowLevelTracked, timerAt>>
    /\ UNCHANGED side

SwitchBottle ==
  /\ MainScreen
  /\ events < MaxEvents
  /\ events' = events + 1
  /\ state' = switchBottleKeepingConsumed(state)
  /\ lastOp' = IF lastOp.op = "editBottle"
               THEN [Op("switchBottle", 0) EXCEPT !.undid = "editBottle", !.base = lastOp.base]
               ELSE Op("switchBottle", 0)
  /\ afterCall' = FALSE
  /\ run' = -1
  /\ UNCHANGED <<build, zone, now, lowLevelTracked, timerAt>>
  /\ UNCHANGED side

EditGoalML ==
  \E v \in GoalChoices :
    /\ MainScreen
    /\ events < MaxEvents
    /\ v # state.goalML
    /\ state' = [state EXCEPT !.goalML = v]
    /\ events' = events + 1
    /\ lastOp' = Op("editGoal", v)
    /\ afterCall' = FALSE
    /\ run' = -1
    /\ UNCHANGED <<build, zone, now, lowLevelTracked, timerAt>>
    /\ UNCHANGED side

EditWake ==
  \E v \in WakeChoices :
    /\ MainScreen
    /\ events < MaxEvents
    /\ v # state.wakeMins
    /\ state' = [state EXCEPT !.wakeMins = v]
    /\ events' = events + 1
    /\ lastOp' = Op("editWake", 0)
    /\ afterCall' = FALSE
    /\ run' = -1
    /\ UNCHANGED <<build, zone, now, lowLevelTracked, timerAt>>
    /\ UNCHANGED side

\* A changed sleepMins re-runs the rollover effect: check now, re-arm the timer.
EditSleep ==
  \E base \in SleepInputs :
    LET v == IF base <= state.wakeMins THEN base + DayMins ELSE base
        s1 == [state EXCEPT !.sleepMins = v]
    IN /\ MainScreen
       /\ events < MaxEvents
       /\ v # state.sleepMins
       /\ state' = resetToTodayIfNeeded(s1, now)
       /\ timerAt' = now + MsUntilNextBoundary(s1, now)
       /\ events' = events + 1
       /\ lastOp' = Op("editSleep", 0)
       /\ afterCall' = FALSE
       /\ run' = -1
       /\ UNCHANGED <<build, zone, now, lowLevelTracked>>
       /\ UNCHANGED side

\* The boundary timer fires (possibly late), checks and re-arms itself.
TimerFires ==
  /\ now >= timerAt
  /\ state' = resetToTodayIfNeeded(state, now)
  /\ timerAt' = now + MsUntilNextBoundary(state, now)
  /\ lastOp' = Op("timer", 0)
  /\ afterCall' = FALSE
  /\ run' = -1
  /\ UNCHANGED <<build, zone, now, lowLevelTracked, events>>
  /\ UNCHANGED side

OnVisibility ==
  /\ state' = resetToTodayIfNeeded(state, now)
  /\ lastOp' = Op("visibility", 0)
  /\ afterCall' = FALSE
  /\ run' = -1
  /\ UNCHANGED <<build, zone, now, lowLevelTracked, events, timerAt>>
  /\ UNCHANGED side

Next ==
  \/ Tick
  \/ Track
  \/ QuickAdd
  \/ Undo
  \/ Refill
  \/ DismissCelebrate
  \/ EditBottleML
  \/ SwitchBottle
  \/ EditGoalML
  \/ EditWake
  \/ EditSleep
  \/ TimerFires
  \/ OnVisibility

Spec == Init /\ [][Next]_vars

\* A long session: WarmLen quick-adds of 250 ml on the first day, then the
\* main-screen handlers, so that the history reaches its cap.
Warm ==
  /\ events = 0
  /\ Len(state.history) < WarmLen
  /\ state' = AddExtraOp(state, 250, now)
  /\ lastOp' = Op("addExtra", 250)
  /\ afterCall' = TRUE
  /\ run' = -1
  /\ UNCHANGED <<build, zone, now, lowLevelTracked, timerAt, events>>
  /\ UNCHANGED side

Warmed == Len(state.history) >= WarmLen \/ events > 0

NextHist ==
  \/ Warm
  \/ Warmed /\ Tick
  \/ Warmed /\ Track
  \/ Warmed /\ QuickAdd
  \/ Warmed /\ Undo
  \/ Warmed /\ DismissCelebrate
  \/ Warmed /\ TimerFires

SpecHist == Init /\ [][NextHist]_vars

\* The session stays alive while the day is stale and the pending timer is not
\* yet due: the clock reaches the timer's fire time.
WaitForTimer ==
  /\ Stale(state, now)
  /\ now < timerAt
  /\ now' = timerAt
  /\ lastOp' = Idle
  /\ run' = -1
  /\ UNCHANGED <<build, zone, state, lowLevelTracked, timerAt, events, afterCall>>
  /\ UNCHANGED side

NextLive ==
  \/ Tick
  \/ Track
  \/ DismissCelebrate
  \/ EditWake
  \/ EditSleep
  \/ TimerFires
  \/ OnVisibility
  \/ WaitForTimer

\* setTimeout runs a due callback; the clock does not stop.
SpecLive == Init /\ [][NextLive]_vars /\ WF_vars(TimerFires) /\ WF_vars(WaitForTimer)

\* ------------------------------------------------ the day-key functions alone
Zones == {"fixed", "forward", "back"}

\* Half-hour instants of days 10 to 12 (the offset change falls on day 11).
DayInstants == {10 * 1440 + 30 * i : i \in 0..DaySteps}

\* A session opened at any of the instants, in any zone, with any schedule,
\* its stored day current.
InitDay ==
  /\ build \in {"rhythm", "classic"}
  /\ zone \in Zones
  /\ now \in DayInstants
  /\ \E w \in WakeChoices, base \in SleepInputs :
       LET s1 == [makeDefaultState(now) EXCEPT
                    !.wakeMins = w,
                    !.sleepMins = IF base <= w THEN base + DayMins ELSE base]
       IN state = [s1 EXCEPT !.dayKey = TodayKey(s1, now)]
  /\ lowLevelTracked = FALSE
  /\ timerAt = now
  /\ events = 0
  /\ afterCall = FALSE
  /\ run = 0
  /\ lastOp = Idle
  /\ morning = MorningOff
  /\ nudge = NudgeOff
  /\ svc = SvcOff
  /\ est = EstOff

\* scheduleNext: the timer is armed for the next boundary.
ScheduleNext ==
  /\ lastOp.op = "idle"
  /\ timerAt' = now + MsUntilNextBoundary(state, now)
  /\ lastOp' = Op("schedule", 0)
  /\ UNCHANGED <<build, zone, now, state, lowLevelTracked, events, afterCall, run>>
  /\ UNCHANGED side

\* The armed timer fires at its time: rollover check, then re-arm.
FireTimer ==
  /\ lastOp.op = "schedule"
  /\ now' = timerAt
  /\ state' = resetToTodayIfNeeded(state, timerAt)
  /\ timerAt' = timerAt + MsUntilNextBoundary(state, timerAt)
  /\ lastOp' = Op("fired", 0)
  /\ UNCHANGED <<build, zone, lowLevelTracked, events, afterCall, run>>
  /\ UNCHANGED side

NextDay ==
  \/ ScheduleNext
  \/ FireTimer

SpecDay == InitDay /\ [][NextDay]_vars

\* ------------------------------------------------------- the pacing model
\* Fractions returned by the pacing curve, kept exact as n/d with d > 0.
Frac(n, d) == [n |-> n, d |-> d]

FracLeq(a, b) == IF a.d = b.d THEN a.n <= b.n ELSE a.n * b.d <= b.n * a.d

RECURSIVE gcd(_, _)
gcd(a, b) == IF b = 0 THEN a ELSE gcd(b, a % b)

minutesSinceMidnight(d) == Local(d) % DayMins

\* The curve's checkpoints, in hundredths: progress and the fraction there.
checkpointT == <<25, 50, 70, 87, 100>>

checkpointPct == <<30, 55, 75, 90, 100>>

\* The slopes between checkpoints are 6/5, 1, 1, 15/17 and 10/13, so every
\* value of the curve is a whole number of units of 1/(110500 * duration).
curveDen(duration) == 100 * 5 * 17 * 13 * duration

\* The first checkpoint at or past the progress e/duration, interpolated
\* from the checkpoint before it; past the last checkpoint the result is 1.
curveAt(e, duration) ==
  LET reached == {i \in 1..Len(checkpointT) : 100 * e <= checkpointT[i] * duration}
  IN IF reached = {} THEN Frac(curveDen(duration), curveDen(duration))
     ELSE LET i == CHOOSE k \in reached : \A j \in reached : k <= j
              t == checkpointT[i]
              pct == checkpointPct[i]
              prevT == IF i = 1 THEN 0 ELSE checkpointT[i - 1]
              prevPct == IF i = 1 THEN 0 ELSE checkpointPct[i - 1]
              span == t - prevT
              g == gcd(pct - prevPct, span)
              p == (pct - prevPct) \div g
              q == span \div g
          IN Frac(((5 * 17 * 13) \div q)
                    * (prevPct * duration * q + p * (100 * e - prevT * duration)),
                  curveDen(duration))

expectedPctAt(d, wakeMins, sleepMins) ==
  LET start == clamp(wakeMins, 0, 1439)
      end0 == clamp(sleepMins, 0, 2879)
      end == IF end0 <= start THEN end0 + DayMins ELSE end0
      m == minutesSinceMidnight(d)
      nowM == IF m < start THEN m + DayMins ELSE m
      duration == clamp(end - start, 6 * 60, 20 * 60)
  IN IF nowM <= start THEN Frac(0, curveDen(duration))
     ELSE IF nowM >= end THEN Frac(curveDen(duration), curveDen(duration))
     ELSE curveAt(nowM - start, duration)

\* Variant: the product is cut off instead of rounded.
\* Math.round(goalML * f) for the fraction f, reduced first.
RoundFrac(goalML, f) ==
  LET g == gcd(f.d, f.n)
  IN RoundDiv(goalML * (f.n \div g), f.d \div g)

expectedMlAtFloor(goalML, d, wakeMins, sleepMins) ==
  LET f == expectedPctAt(d, wakeMins, sleepMins)
      g == gcd(f.d, f.n)
  IN (goalML * (f.n \div g)) \div (f.d \div g)

expectedMlAt(goalML, d, wakeMins, sleepMins) ==
  RoundFrac(goalML, expectedPctAt(d, wakeMins, sleepMins))

\* Wake times and bedtimes a user can enter on the schedule screen.
PaceWakes == {30, 480, 1380}

PaceSleeps == {60, 600, 1320}

\* Every tenth minute of day 10.
PaceInstants == {10 * 1440 + 10 * i : i \in 0..DaySteps}

\* The home screen opened at any of the instants with the default schedule.
InitPace ==
  /\ build \in {"rhythm", "classic"}
  /\ zone = "fixed"
  /\ now \in PaceInstants
  /\ state = makeDefaultState(now)
  /\ lowLevelTracked = FALSE
  /\ timerAt = now
  /\ events = 0
  /\ afterCall = FALSE
  /\ run = 0
  /\ lastOp = Idle
  /\ morning = MorningOff
  /\ nudge = NudgeOff
  /\ svc = SvcOff
  /\ est = EstOff

\* The wake field loses focus: only wakeMins is written.
PaceSetWake ==
  \E v \in PaceWakes :
    /\ v # state.wakeMins
    /\ state' = [state EXCEPT !.wakeMins = v]
    /\ lastOp' = Idle
    /\ UNCHANGED <<build, zone, now, lowLevelTracked, timerAt, events, afterCall, run>>
    /\ UNCHANGED side

\* The sleep field loses focus: a bedtime not after the wake time is stored
\* as the following day's.
PaceSetSleep ==
  \E base \in PaceSleeps :
    LET v == IF base <= state.wakeMins THEN base + DayMins ELSE base
    IN /\ v # state.sleepMins
       /\ state' = [state EXCEPT !.sleepMins = v]
       /\ lastOp' = Idle
       /\ UNCHANGED <<build, zone, now, lowLevelTracked, timerAt, events, afterCall, run>>
       /\ UNCHANGED side

\* The home screen computes the expected volume for the current instant.
PaceLook ==
  /\ lastOp.op = "idle"
  /\ lastOp' = Op("expected", expectedMlAt(state.goalML, now, state.wakeMins, state.sleepMins))
  /\ UNCHANGED <<build, zone, now, state, lowLevelTracked, timerAt, events, afterCall, run>>
  /\ UNCHANGED side

NextPace ==
  \/ PaceSetWake
  \/ PaceSetSleep
  \/ PaceLook

SpecPace == InitPace /\ [][NextPace]_vars

\* ----------------------------------------------- the rhythm segments alone
\* The session's first quick add, 250 ml, at the instant it was opened at.
RhythmEvent ==
  /\ lastOp.op = "idle"
  /\ state.history = <<>>
  /\ state' = AddExtraOp(state, 250, now)
  /\ lastOp' = Op("addExtra", 250)
  /\ UNCHANGED <<build, zone, now, lowLevelTracked, timerAt, events, afterCall, run>>
  /\ UNCHANGED side

NextRhythm ==
  \/ PaceSetWake
  \/ PaceSetSleep
  \/ RhythmEvent

SpecRhythm == InitPace /\ [][NextRhythm]_vars

\* ------------------------------------------------- a daily log filled up
\* The session stays alive over a boundary with nothing logged: the clock
\* reaches the timer's fire time and the callback rolls the day over. This
\* goes on until the log holds as many days as the build retains.
LogWarm ==
  /\ events = 0
  /\ Cardinality(DOMAIN state.dailyLog) < Retention
  /\ now' = timerAt
  /\ state' = resetToTodayIfNeeded(state, timerAt)
  /\ timerAt' = timerAt + MsUntilNextBoundary(state, timerAt)
  /\ lastOp' = Op("timer", 0)
  /\ afterCall' = FALSE
  /\ run' = -1
  /\ UNCHANGED <<build, zone, lowLevelTracked, events>>
  /\ UNCHANGED side

LogWarmed == Cardinality(DOMAIN state.dailyLog) >= Retention \/ events > 0

NextLog ==
  \/ LogWarm
  \/ LogWarmed /\ Tick
  \/ LogWarmed /\ Track
  \/ LogWarmed /\ QuickAdd
  \/ LogWarmed /\ Undo
  \/ LogWarmed /\ DismissCelebrate
  \/ LogWarmed /\ TimerFires
  \/ LogWarmed /\ OnVisibility

SpecLog == Init /\ [][NextLog]_vars

\* ------------------------------------------------------ the morning prompt
getNowMinutes(d) == Local(d) % DayMins

MorningToken(s, d) == [key |-> dayKey(d), wake |-> clamp(s.wakeMins, 0, 1439)]

\* Variant: the prompt offered at any time of the day.
checkMorningResetAnyTime(s, m, d) ==
  [m EXCEPT !.show = (m.token # MorningToken(s, d))]

checkMorningReset(s, m, d) ==
  [m EXCEPT !.show = (getNowMinutes(d) >= clamp(s.wakeMins, 0, 1439)
                      /\ m.token # MorningToken(s, d))]

\* The state written when the prompt is confirmed.
handleMorningRefill(s, d) == FreshDay(s, TodayKey(s, d))

MorningInstants == {10 * 1440 + 120 * i : i \in 0..11}

\* The app mounted at one of the instants, no reset confirmed so far; the
\* mount effect has run the check.
InitMorning ==
  /\ build \in {"rhythm", "classic"}
  /\ zone = "fixed"
  /\ now \in MorningInstants
  /\ state = makeDefaultState(now)
  /\ lowLevelTracked = FALSE
  /\ timerAt = now + MsUntilNextBoundary(makeDefaultState(now), now)
  /\ events = 0
  /\ afterCall = FALSE
  /\ run = 0
  /\ lastOp = Idle
  /\ morning = checkMorningReset(makeDefaultState(now), MorningOff, now)
  /\ nudge = NudgeOff
  /\ svc = SvcOff
  /\ est = EstOff

\* visibilitychange to visible: the rollover listener and the prompt listener.
MorningVisible ==
  /\ state' = resetToTodayIfNeeded(state, now)
  /\ morning' = checkMorningReset(state, morning, now)
  /\ nudge' = [nudge EXCEPT !.lastAppOpenDayKey =
                 IF build = "rhythm" THEN dayKey(now) ELSE @]
  /\ lastOp' = Op("visibility", 0)
  /\ afterCall' = FALSE
  /\ run' = -1
  /\ UNCHANGED <<build, zone, now, lowLevelTracked, events, timerAt, svc, est>>

\* The prompt's button: the day is reset and the token written; the effect on
\* the token then runs the check.
MorningConfirm ==
  /\ morning.show
  /\ state' = handleMorningRefill(state, now)
  /\ morning' = checkMorningReset(state, [show |-> FALSE, token |-> MorningToken(state, now)], now)
  /\ lowLevelTracked' = FALSE
  /\ lastOp' = Op("morningConfirm", 0)
  /\ afterCall' = FALSE
  /\ run' = -1
  /\ UNCHANGED <<build, zone, now, events, timerAt, nudge, svc, est>>

\* The wake field edited on the schedule screen (the prompt covers every
\* screen while it is shown); the effect on wakeMins runs the check.
MorningEditWake ==
  \E v \in WakeChoices :
    /\ ~morning.show
    /\ MainScreen
    /\ events < MaxEvents
    /\ v # state.wakeMins
    /\ state' = [state EXCEPT !.wakeMins = v]
    /\ morning' = checkMorningReset([state EXCEPT !.wakeMins = v], morning, now)
    /\ events' = events + 1
    /\ lastOp' = Op("editWake", 0)
    /\ afterCall' = FALSE
    /\ run' = -1
    /\ UNCHANGED <<build, zone, now, lowLevelTracked, timerAt, nudge, svc, est>>

\* Wall-clock time passes with the app in the background or left untouched.
MorningTick ==
  /\ Tick
  /\ UNCHANGED side

\* ------------------------------------------------------ the nudge scheduler
\* getWindowForSchedule: today's wake and sleep instants, tomorrow's once
\* today's sleep instant has passed.
getWindowForSchedule(d, wakeMins, sleepMins) ==
  LET base == dayKey(d) * DayMins
      wake0 == FromLocal(base + wakeMins)
      sleep0 == FromLocal(base + (sleepMins % DayMins))
      sleep1 == IF sleepMins <= wakeMins THEN FromLocal(Local(sleep0) + DayMins) ELSE sleep0
  IN IF d > sleep1
     THEN [wake |-> FromLocal(Local(wake0) + DayMins), sleep |-> FromLocal(Local(sleep1) + DayMins)]
     ELSE [wake |-> wake0, sleep |-> sleep1]

\* computeWindowProgress as the fraction n/d.
computeWindowProgress(d, wake, sleep) ==
  IF d <= wake THEN Frac(0, 1)
  ELSE IF d >= sleep THEN Frac(1, 1)
  ELSE IF sleep - wake > 0 THEN Frac(clamp(d - wake, 0, sleep - wake), sleep - wake)
  ELSE Frac(0, 1)

\* expectedBottles - actualConsumedBottles, times bottleML.
BehindMl(s, d, total) == expectedMlAt(s.goalML, d, s.wakeMins, s.sleepMins) - total

\* behindBottles >= tenths / 10.
BehindAtLeast(s, d, total, tenths) == 10 * BehindMl(s, d, total) >= tenths * s.bottleML

ScheduleWindow(s, d) ==
  getWindowForSchedule(d, clamp(s.wakeMins, 0, 1439), clamp(s.sleepMins, 0, 1439))

\* The early decision for the trigger time and whether the user is behind.
EarlyFor(s, h, d, behind, trigger) ==
  LET target == dayKey(trigger)
  IN IF s.bottleML <= 0 THEN [act |-> "none"]
     ELSE IF h.behindNudgeScheduledDayKey # NoKey
             /\ h.behindNudgeScheduledDayKey = dayKey(d) /\ ~behind
     THEN [act |-> "cancel"]
     ELSE IF h.lastBehindNudgeDayKey = target \/ h.lastRefillOrLogDayKey = target
             \/ ~behind \/ h.behindNudgeScheduledDayKey = target
     THEN [act |-> "none"]
     ELSE [act |-> "schedule", trigger |-> trigger, target |-> target, tier |-> "none"]

EarlyIn(s, h, d, behind, w) ==
  EarlyFor(s, h, d, behind, Max(Max(d + 1, w.wake + 20), w.wake + (w.sleep - w.wake) \div 4))

\* What maybeScheduleBehindNudge decides before its first await, from the
\* state and hooks of the render it was created in.
EarlyDecision(s, h, d) ==
  EarlyIn(s, h, d, BehindAtLeast(s, d, totalConsumedFromState(s), 3), ScheduleWindow(s, d))

\* The late decision for the trigger time and whether the user is behind.
LateFor(s, h, d, behind, trigger) ==
  LET key == dayKey(trigger)
      alreadyFired == h.lastLateBehindDayKey = key
      refilledAfterEarly == h.lastEarlyBehindFiredAt # NoKey /\ h.lastRefillOrLogAt # NoKey
                            /\ h.lastRefillOrLogAt > h.lastEarlyBehindFiredAt
  IN IF s.bottleML <= 0 THEN [act |-> "none"]
     ELSE IF behind /\ ~alreadyFired /\ ~refilledAfterEarly
     THEN [act |-> "schedule", trigger |-> trigger, target |-> key, tier |-> "none"]
     ELSE IF ~behind \/ refilledAfterEarly THEN [act |-> "cancel"]
     ELSE [act |-> "none"]

LateIn(s, h, d, behind, w) ==
  LateFor(s, h, d, behind, Max(d + 2, w.wake + (7 * (w.sleep - w.wake)) \div 10))

\* What maybeScheduleLateBehindNudge decides before its first await.
LateDecision(s, h, d) ==
  LateIn(s, h, d, BehindAtLeast(s, d, totalConsumedFromState(s), 5), ScheduleWindow(s, d))

\* The praise decision for the window progress p and the lead.
PraiseFor(s, h, d, p, leadMl) ==
  LET today == dayKey(d)
      tier == IF 10 * leadMl <= 2 * s.bottleML THEN "neutral"
              ELSE IF 10 * leadMl >= 3 * s.bottleML THEN "quantified" ELSE "none"
  IN IF s.bottleML <= 0 \/ h.lastAppOpenDayKey # today \/ h.lastPraiseDateKey = today
        \/ h.lastBehindNudgeDayKey = today \/ h.lastLateBehindDayKey = today
        \/ 4 * p.n < p.d \/ leadMl < 0 \/ tier = "none"
     THEN [act |-> "none"]
     ELSE [act |-> "schedule", trigger |-> d, target |-> today, tier |-> tier]

\* What maybeSendPraiseNotification decides before its first await.
PraiseDecision(s, h, d, total) ==
  PraiseFor(s, h, d,
            computeWindowProgress(d, getWindowForSchedule(d, s.wakeMins, s.sleepMins).wake,
                                  getWindowForSchedule(d, s.wakeMins, s.sleepMins).sleep),
            total - expectedMlAt(s.goalML, d, s.wakeMins, s.sleepMins))

\* An asynchronous call that has not returned: which function, where it
\* waits, and what it decided.
Call(fn, pc, dec) ==
  [fn |-> fn, pc |-> pc, trigger |-> dec.trigger, target |-> dec.target, tier |-> dec.tier]

NoDecision == [trigger |-> NoKey, target |-> NoKey, tier |-> "none"]

\* Variant: an exception of the service reaches the user.
Rethrown(v) == [v EXCEPT !.error = TRUE]

\* catch { /* ignore */ }: an exception of the service ends the call and has
\* no other effect.
Swallowed(v) == v

\* The service's answer to cancel({id}): the notification is gone, unless the
\* call throws.
CancelEarly(v) == IF v.mode = "throws" THEN Swallowed(v) ELSE [v EXCEPT !.early = NoKey]

CancelLate(v) == IF v.mode = "throws" THEN Swallowed(v) ELSE [v EXCEPT !.late = NoKey]

CancelPraise(v) == IF v.mode = "throws" THEN Swallowed(v) ELSE [v EXCEPT !.praise = NoKey]

\* cancelBehindNudge up to its await; the hooks are cleared when it resumes.
StartCancelBehind(v) ==
  [CancelEarly(v) EXCEPT !.calls = @ \cup {Call("cancelEarly", "cancelled", NoDecision)}]

\* maybeScheduleBehindNudge up to its first await.
StartEarlyWith(dec, v) ==
  IF dec.act = "cancel" THEN StartCancelBehind(v)
  ELSE IF dec.act = "schedule" THEN [v EXCEPT !.calls = @ \cup {Call("early", "perm", dec)}]
  ELSE v

StartEarly(s, h, v, d) == StartEarlyWith(EarlyDecision(s, h, d), v)

\* maybeScheduleLateBehindNudge up to its first await.
StartLateWith(dec, v) ==
  IF dec.act = "cancel" THEN CancelLate(v)
  ELSE IF dec.act = "schedule" THEN [v EXCEPT !.calls = @ \cup {Call("late", "perm", dec)}]
  ELSE v

StartLate(s, h, v, d) == StartLateWith(LateDecision(s, h, d), v)

StartPraiseWith(dec, v) ==
  IF dec.act = "schedule" THEN [v EXCEPT !.calls = @ \cup {Call("praise", "perm", dec)}]
  ELSE v

StartPraise(s, h, v, d, total) == StartPraiseWith(PraiseDecision(s, h, d, total), v)

\* The body of the scheduling effect: both nudges are looked at.
RunEffect(s, h, v, d) == StartLate(s, h, StartEarly(s, h, v, d), d)

\* The dependencies of the scheduling effect among the hooks.
EffectDeps(h) ==
  <<h.lastAppOpenDayKey, h.lastRefillOrLogDayKey, h.lastBehindNudgeDayKey,
    h.behindNudgeScheduledDayKey>>

\* After a render: the effect runs when one of its dependencies has changed.
AfterRender(s, h0, h1, v, d) ==
  IF EffectDeps(h0) # EffectDeps(h1) THEN RunEffect(s, h1, v, d) ELSE v

\* The hooks a logging handler writes.
LogHooks(h, d) == [h EXCEPT !.lastRefillOrLogDayKey = dayKey(d), !.lastRefillOrLogAt = d]

\* The service part of a logging handler: both nudges are cancelled.
LogCancels(v) == CancelLate(StartCancelBehind(v))

NudgeInstants == {10 * 1440 + 60 * h : h \in {9, 12}}

NudgeLevels == {1000, 5000}

NudgeSteps == {2, 180, 900}

\* The user and clock events of one run of the nudge machine.
NudgeEvents == 3

ServiceModes == {"ok", "denied", "throws"}

\* The stored bedtimes: 22:00, and 01:00 as the sleep handlers store it for a
\* wake time of 08:00.
NudgeSleeps == {1320, 1500}

\* The native app before its first render, at one of the instants, with one
\* of the stored bedtimes, the morning prompt of the day taken as confirmed.
InitNudge ==
  /\ build = "rhythm"
  /\ zone = "fixed"
  /\ now \in NudgeInstants
  /\ \E sl \in NudgeSleeps : state = [makeDefaultState(now) EXCEPT !.sleepMins = sl]
  /\ lowLevelTracked = FALSE
  /\ timerAt = now + MsUntilNextBoundary(makeDefaultState(now), now)
  /\ events = 0
  /\ afterCall = FALSE
  /\ run = 0
  /\ lastOp = Idle
  /\ morning = MorningOff
  /\ nudge = NudgeOff
  /\ \E mode \in ServiceModes : svc = [SvcOff EXCEPT !.mode = mode]
  /\ est = EstOff

\* First render: the mount effects note the app as opened and look at both
\* nudges.
NudgeMount ==
  /\ ~svc.mounted
  /\ nudge' = [nudge EXCEPT !.lastAppOpenDayKey = dayKey(now)]
  /\ svc' = AfterRender(state, nudge, nudge',
                        RunEffect(state, nudge, [svc EXCEPT !.mounted = TRUE], now), now)
  /\ lastOp' = Op("mount", 0)
  /\ UNCHANGED <<build, zone, now, state, lowLevelTracked, timerAt, events, afterCall, run,
                 morning, est>>

\* Track button: the level is committed, the log is noted, both nudges are
\* cancelled, the praise is looked at; the effect follows the render.
NudgeTrack ==
  \E f \in NudgeLevels :
    /\ svc.mounted
    /\ MainScreen
    /\ f # state.remaining
    /\ events < NudgeEvents
    /\ events' = events + 1
    /\ state' = commitScanToDailyProgress(state, f, now)
    /\ lowLevelTracked' = (f * 10 <= FracDen)
    /\ lastOp' = Op("setBottleLevel", f)
    /\ run' = -1
    /\ afterCall' = TRUE
    /\ nudge' = LogHooks(nudge, now)
    /\ svc' = AfterRender(state', nudge, nudge',
                          StartPraise(state, nudge, LogCancels(svc), now,
                                      totalConsumedFromState(state')), now)
    /\ UNCHANGED <<build, zone, now, timerAt, morning, est>>

\* Refill button: the level shown is committed as a log, then the bottle is
\* full again and the celebration opens.
NudgeRefill ==
  /\ svc.mounted
  /\ MainScreen
  /\ lowLevelTracked
  /\ state.remaining * 10 <= FracDen
  /\ events < NudgeEvents
  /\ events' = events + 1
  /\ state' = handleRefill(state, state.remaining, now)
  /\ lowLevelTracked' = FALSE
  /\ lastOp' = Op("refill", state.remaining)
  /\ afterCall' = FALSE
  /\ run' = -1
  /\ nudge' = LogHooks(nudge, now)
  /\ svc' = AfterRender(state', nudge, nudge',
                        StartPraise(state, nudge, LogCancels(svc), now,
                                    totalConsumedFromState(state')), now)
  /\ UNCHANGED <<build, zone, now, timerAt, morning, est>>

\* Quick add: the volume is added, the log is noted, both nudges are cancelled.
NudgeQuickAdd ==
  \E ml \in ExtraChoices :
    /\ svc.mounted
    /\ MainScreen
    /\ events < NudgeEvents
    /\ events' = events + 1
    /\ state' = AddExtraOp(state, ml, now)
    /\ lastOp' = Op("addExtra", ml)
    /\ afterCall' = TRUE
    /\ run' = -1
    /\ nudge' = LogHooks(nudge, now)
    /\ svc' = AfterRender(state', nudge, nudge', LogCancels(svc), now)
    /\ UNCHANGED <<build, zone, now, lowLevelTracked, timerAt, morning, est>>

\* visibilitychange to visible: the rollover listener, then onVis with the
\* hooks of the last render; the effect follows the render.
NudgeVisible ==
  /\ svc.mounted
  /\ events < NudgeEvents
  /\ events' = events + 1
  /\ state' = resetToTodayIfNeeded(state, now)
  /\ LET sched == nudge.behindNudgeScheduledDayKey # NoKey
         due == sched /\ nudge.behindNudgeScheduledAtMs # NoKey
                /\ now >= nudge.behindNudgeScheduledAtMs
     IN /\ nudge' = [nudge EXCEPT
                       !.lastAppOpenDayKey = dayKey(now),
                       !.lastBehindNudgeDayKey = IF due THEN dayKey(now) ELSE @,
                       !.behindNudgeScheduledAtMs = IF due THEN NoKey ELSE @,
                       !.behindNudgeScheduledDayKey = IF due THEN NoKey ELSE @]
        /\ svc' = AfterRender(state', nudge, nudge',
                              RunEffect(state, nudge,
                                        IF sched THEN StartCancelBehind(svc) ELSE svc, now),
                              now)
  /\ lastOp' = Op("visibility", 0)
  /\ afterCall' = FALSE
  /\ run' = -1
  /\ UNCHANGED <<build, zone, now, lowLevelTracked, timerAt, morning, est>>

\* The operating system delivers what has come due by the instant d.
Deliver(v, d) ==
  LET due == {id \in {"early", "late", "praise"} : v[id] # NoKey /\ v[id] <= d}
  IN [v EXCEPT !.early = IF "early" \in due THEN NoKey ELSE @,
               !.late = IF "late" \in due THEN NoKey ELSE @,
               !.praise = IF "praise" \in due THEN NoKey ELSE @,
               !.delivered = @ \cup {[id |-> id, at |-> v[id], after |-> Cardinality(v.delivered)]
                                      : id \in due}]

\* Wall-clock time passes, by whole minutes and so with no call to the
\* service still in flight; notifications that come due are delivered.
NudgeTick ==
  \E step \in NudgeSteps :
    /\ svc.mounted
    /\ svc.calls = {}
    /\ events < NudgeEvents
    /\ events' = events + 1
    /\ now' = now + step
    /\ svc' = Deliver(svc, now + step)
    /\ lastOp' = Idle
    /\ run' = -1
    /\ UNCHANGED <<build, zone, state, lowLevelTracked, timerAt, afterCall, morning, nudge, est>>

\* One asynchronous call resumes after the await it was waiting at.
Resume(c) ==
  LET rest == svc.calls \ {c}
      granted == svc.mode # "denied"
      throws == svc.mode = "throws"
      cleared == [nudge EXCEPT !.behindNudgeScheduledDayKey = NoKey,
                               !.behindNudgeScheduledAtMs = NoKey]
  IN CASE c.fn = "cancelEarly" ->
            [h |-> cleared, v |-> [svc EXCEPT !.calls = rest]]
       [] c.fn = "early" /\ c.pc = "perm" ->
            [h |-> nudge,
             v |-> IF granted
                   THEN [CancelEarly(svc) EXCEPT !.calls = rest \cup {[c EXCEPT !.pc = "cancelled"]}]
                   ELSE [svc EXCEPT !.calls = rest]]
       [] c.fn = "early" /\ c.pc = "cancelled" ->
            [h |-> cleared,
             v |-> IF throws THEN Swallowed([svc EXCEPT !.calls = rest])
                   ELSE [svc EXCEPT !.early = c.trigger,
                                    !.calls = rest \cup {[c EXCEPT !.pc = "scheduled"]}]]
       [] c.fn = "early" /\ c.pc = "scheduled" ->
            [h |-> [nudge EXCEPT !.behindNudgeScheduledDayKey = c.target,
                                 !.behindNudgeScheduledAtMs = c.trigger,
                                 !.lastEarlyBehindFiredAt = c.trigger],
             v |-> [svc EXCEPT !.calls = rest]]
       [] c.fn = "late" /\ c.pc = "perm" ->
            [h |-> nudge,
             v |-> IF granted
                   THEN [CancelLate(svc) EXCEPT !.calls = rest \cup {[c EXCEPT !.pc = "cancelled"]}]
                   ELSE [svc EXCEPT !.calls = rest]]
       [] c.fn = "late" /\ c.pc = "cancelled" ->
            [h |-> nudge,
             v |-> IF throws THEN Swallowed([svc EXCEPT !.calls = rest])
                   ELSE [svc EXCEPT !.late = c.trigger,
                                    !.calls = rest \cup {[c EXCEPT !.pc = "scheduled"]}]]
       [] c.fn = "late" /\ c.pc = "scheduled" ->
            [h |-> [nudge EXCEPT !.lastLateBehindDayKey = c.target],
             v |-> [svc EXCEPT !.calls = rest]]
       [] c.fn = "praise" /\ c.pc = "perm" ->
            [h |-> nudge,
             v |-> IF granted
                   THEN [CancelPraise(svc) EXCEPT
                                    !.calls = rest \cup {[c EXCEPT !.pc = "cancelled"]}]
                   ELSE [svc EXCEPT !.calls = rest]]
       [] c.fn = "praise" /\ c.pc = "cancelled" ->
            [h |-> nudge,
             v |-> IF throws THEN Swallowed([svc EXCEPT !.calls = rest])
                   ELSE [svc EXCEPT !.praise = now,
                                    !.calls = rest \cup {[c EXCEPT !.pc = "scheduled"]}]]
       [] OTHER ->
            [h |-> [nudge EXCEPT !.lastPraiseDateKey = c.target],
             v |-> [svc EXCEPT !.calls = rest]]

NudgeResume ==
  \E c \in svc.calls :
    /\ nudge' = Resume(c).h
    /\ svc' = AfterRender(state, nudge, nudge', Resume(c).v, now)
    /\ lastOp' = Idle
    /\ UNCHANGED <<build, zone, now, state, lowLevelTracked, timerAt, events, afterCall,
                   run, morning, est>>

\* The rollover timer of the day fires.
NudgeTimer ==
  /\ svc.mounted
  /\ TimerFires

NextNudge ==
  \/ NudgeMount
  \/ NudgeTimer
  \/ NudgeTrack
  \/ NudgeQuickAdd
  \/ NudgeRefill
  \/ NudgeVisible
  \/ NudgeTick
  \/ NudgeResume

SpecNudge == InitNudge /\ [][NextNudge]_vars

\* No call to the notification service is in flight.
Settled == svc.calls = {}

\* The scheduling calls of one kind that the step starts.
NewCalls(fn) == {c \in svc'.calls \ svc.calls : c.fn = fn /\ c.pc = "perm"}

\* The length of the hydration window under the stored schedule, as the
\* pacing curve takes it.
WindowLen(s) ==
  LET start == clamp(s.wakeMins, 0, 1439)
      end0 == clamp(s.sleepMins, 0, 2879)
  IN (IF end0 <= start THEN end0 + DayMins ELSE end0) - start

\* The last wake instant not after the instant d.
WakeBefore(s, d) ==
  LET w == FromLocal(dayKey(d) * DayMins + clamp(s.wakeMins, 0, 1439))
  IN IF w <= d THEN w ELSE FromLocal(Local(w) - DayMins)

\* The hydration window of the instant d: the one that is open at d, else the
\* next one to open.
WindowAt(s, d) ==
  LET w0 == WakeBefore(s, d)
      w1 == FromLocal(Local(w0) + DayMins)
  IN IF d > w0 + WindowLen(s)
     THEN [wake |-> w1, sleep |-> w1 + WindowLen(s)]
     ELSE [wake |-> w0, sleep |-> w0 + WindowLen(s)]

\* The user logged progress on the day of the instant t, not after t.
LoggedBefore(t) ==
  /\ nudge.lastRefillOrLogAt # NoKey
  /\ dayKey(nudge.lastRefillOrLogAt) = dayKey(t)
  /\ nudge.lastRefillOrLogAt <= t

EarlyTrigger(s, d) ==
  LET w == WindowAt(s, d)
  IN Max(Max(d + 1, w.wake + 20), w.wake + (w.sleep - w.wake) \div 4)

\* C25, first half: a scheduling call for the early nudge starts only when the
\* user is at least 0.3 bottles behind, and aims at
\* max(now + 1 min, wake + 20 min, wake + 25% of the window).
C25_EarlyDecision ==
  [][\A c \in NewCalls("early") :
       /\ BehindAtLeast(state', now', totalConsumedFromState(state'), 3)
       /\ c.trigger = EarlyTrigger(state', now')]_vars

\* C25, second half: with a working service and every call settled, no early
\* nudge is pending for a day on which the user logged progress before its
\* trigger time.
C25_NoEarlyAfterLog ==
  (Settled /\ svc.mode = "ok" /\ svc.early # NoKey) => ~LoggedBefore(svc.early)

\* C25, second half: with a working service and every call settled, no early
\* nudge is pending while the gap is below 0.3 bottles.
C25_NoEarlyBelowGap ==
  (Settled /\ svc.mode = "ok" /\ svc.early # NoKey /\ now <= svc.early) =>
    BehindAtLeast(state, now, totalConsumedFromState(state), 3)

LateDelivered == {e \in svc.delivered : e.id = "late"}

EarlyDelivered == {e \in svc.delivered : e.id = "early"}

\* C26, first part: a scheduling call for the late nudge starts only when the
\* user is at least 0.5 bottles behind, no log came after an early nudge that
\* fired on the day aimed at, and no late nudge has fired on that day.
C26_LateDecision ==
  [][\A c \in NewCalls("late") :
       /\ BehindAtLeast(state', now', totalConsumedFromState(state'), 5)
       /\ \A e \in EarlyDelivered :
            dayKey(e.at) = c.target =>
              ~(nudge'.lastRefillOrLogAt # NoKey /\ nudge'.lastRefillOrLogAt > e.at)
       /\ \A e \in LateDelivered : dayKey(e.at) # c.target]_vars

\* C26, second part: a pending late nudge never has a trigger time before 70%
\* of the hydration window it falls in.
C26_LateNotBefore70 ==
  svc.late # NoKey =>
    10 * (svc.late - WakeBefore(state, svc.late)) >= 7 * WindowLen(state)

\* C26, third part: at most one late nudge fires per day.
C26_OneLatePerDay ==
  \A a \in LateDelivered : \A b \in LateDelivered : dayKey(a.at) = dayKey(b.at) => a = b

PraiseDelivered == {e \in svc.delivered : e.id = "praise"}

\* The lead over the expected volume, in ml.
LeadMl(s, d) ==
  totalConsumedFromState(s) - expectedMlAt(s.goalML, d, s.wakeMins, s.sleepMins)

\* C27, the nudge condition: a praise is scheduled only on a day on which no
\* behind-pace nudge, early or late, has fired.
C27_PraiseNoNudgeToday ==
  svc.praise # NoKey =>
    \A e \in EarlyDelivered \cup LateDelivered : dayKey(e.at) # dayKey(svc.praise)

\* C27, the other conditions: a praise is sent only when the app was opened
\* today, at least 25% of the window has passed and the volume drunk is at or
\* ahead of the expected one; neutral for a lead of at most 0.2 bottles,
\* quantified for a lead of at least 0.3 bottles.
C27_PraiseDecision ==
  [][\A c \in NewCalls("praise") :
       LET w == WindowAt(state', now')
           lead == LeadMl(state', now')
       IN /\ nudge.lastAppOpenDayKey = dayKey(now')
          /\ now' >= w.wake
          /\ 4 * (now' - w.wake) >= w.sleep - w.wake
          /\ lead >= 0
          /\ 10 * lead <= 2 * state'.bottleML => c.tier = "neutral"
          /\ 10 * lead >= 3 * state'.bottleML => c.tier = "quantified"]_vars

\* C27, once per day: at most one praise is delivered per day.
C27_OnePraisePerDay ==
  \A a \in PraiseDelivered : \A b \in PraiseDelivered : dayKey(a.at) = dayKey(b.at) => a = b

MAX_ATTEMPTS == 2

\* Variant: one attempt more.
attemptsLeftOneMore(attempt) == attempt < 3

\* attempt < MAX_ATTEMPTS: the loop has another pass.
attemptsLeft(attempt) == attempt < MAX_ATTEMPTS

\* No Retry-After header, or one that is neither a number nor a date.
NoHeader == [kind |-> "none", v |-> 0]

\* Retry-After values: a number of seconds in thousandths, or an HTTP-date as
\* an instant of the clock.
Headers ==
  {NoHeader, [kind |-> "seconds", v |-> 0], [kind |-> "seconds", v |-> 2000],
   [kind |-> "date", v |-> 1500], [kind |-> "garbage", v |-> 0]}

\* percent_full and fill_fraction of a body, each a number or missing (NoKey
\* is never a value here); fill_fraction in hundredths.
NoNumber == -1000

Bodies ==
  {[percent_full |-> NoNumber, fill_fraction |-> NoNumber],
   [percent_full |-> 67, fill_fraction |-> NoNumber],
   [percent_full |-> 140, fill_fraction |-> 50],
   [percent_full |-> -5, fill_fraction |-> NoNumber],
   [percent_full |-> NoNumber, fill_fraction |-> 45],
   [percent_full |-> NoNumber, fill_fraction |-> 250]}

Statuses == {200, 204, 404, 429, 500}

Jitters == {0, 449}

\* setTimeout fires at the delay or later.
Lateness == {0, 7}

\* Variant: the seconds taken as milliseconds.
parseRetryAfterAsMs(retryAfter, nowMs) ==
  IF retryAfter.kind = "seconds" THEN retryAfter.v \div 1000
  ELSE IF retryAfter.kind = "date" THEN Max(0, retryAfter.v - nowMs)
  ELSE NoKey

\* parseRetryAfterToMs: null (NoKey) for no header and for garbage.
parseRetryAfterToMs(retryAfter, nowMs) ==
  IF retryAfter.kind = "seconds" THEN retryAfter.v
  ELSE IF retryAfter.kind = "date" THEN Max(0, retryAfter.v - nowMs)
  ELSE NoKey

RECURSIVE Pow2(_)
Pow2(n) == IF n <= 0 THEN 1 ELSE 2 * Pow2(n - 1)

backoffMs(attempt) == Min(20000, 1200 * Pow2(attempt - 1))

\* The wait after a 429.
waitMsFor(res, attempt, jitterMs, nowMs) ==
  LET retryAfterMs == parseRetryAfterToMs(res.retryAfter, nowMs)
  IN IF retryAfterMs # NoKey /\ retryAfterMs > 0 THEN retryAfterMs
     ELSE backoffMs(attempt) + jitterMs

ok(res) == res.status >= 200 /\ res.status <= 299

\* The scan starts: the first request is issued.
EstStart ==
  /\ est.phase = "idle"
  /\ est' = [est EXCEPT !.phase = "fetching", !.attempt = 1, !.requests = 1]
  /\ UNCHANGED <<build, zone, now, state, lowLevelTracked, timerAt, events, afterCall, run,
                 lastOp, morning, nudge, svc>>

\* The caller's catch: the error is shown; a rate-limit error starts the
\* cooldown from the wait it carries.
ScanFailed(e, kind, carried) ==
  [e EXCEPT !.phase = "failed", !.error = kind, !.retryAfterMs = carried,
            !.cooldownUntil = IF kind = "RateLimitError"
                              THEN e.clock + (IF carried # NoKey /\ carried > 0
                                              THEN carried ELSE 15000)
                              ELSE @]

\* One pass of the loop body after the response res has arrived.
OnResponse(e, res, jitterMs) ==
  LET e1 == [e EXCEPT !.responses = Append(@, res)]
      waitMs == waitMsFor(res, e.attempt, jitterMs, e.clock)
      body == res.body
  IN IF res.status = 429
     THEN IF attemptsLeft(e.attempt)
          THEN [e1 EXCEPT !.phase = "sleeping", !.waitMs = waitMs, !.lastWaitMs = waitMs,
                          !.received = e.clock]
          ELSE ScanFailed([e1 EXCEPT !.lastWaitMs = waitMs], "RateLimitError", waitMs)
     ELSE IF ~ok(res) THEN ScanFailed(e1, "Error", NoKey)
     ELSE IF body.percent_full # NoNumber
     THEN [e1 EXCEPT !.phase = "returned", !.result = clamp(body.percent_full, 0, 100)]
     ELSE IF body.fill_fraction # NoNumber
     THEN [e1 EXCEPT !.phase = "returned", !.result = clamp(body.fill_fraction, 0, 100)]
     ELSE ScanFailed(e1, "Error", NoKey)

\* The service answers the request in flight.
EstRespond ==
  \E status \in Statuses, retryAfter \in Headers, body \in Bodies, jitterMs \in Jitters :
    /\ est.phase = "fetching"
    /\ status # 429 => retryAfter = NoHeader /\ jitterMs = 0
    /\ status \in {429, 404, 500} => body = [percent_full |-> NoNumber, fill_fraction |-> NoNumber]
    /\ est' = OnResponse(est, [status |-> status, retryAfter |-> retryAfter, body |-> body],
                         jitterMs)
    /\ UNCHANGED <<build, zone, now, state, lowLevelTracked, timerAt, events, afterCall, run,
                   lastOp, morning, nudge, svc>>

\* fetch rejects: the error goes to the caller at once.
EstNetworkError ==
  /\ est.phase = "fetching"
  /\ est' = ScanFailed(est, "Error", NoKey)
  /\ UNCHANGED <<build, zone, now, state, lowLevelTracked, timerAt, events, afterCall, run,
                 lastOp, morning, nudge, svc>>

\* The sleep ends and the loop issues the next request.
EstWake ==
  \E late \in Lateness :
    /\ est.phase = "sleeping"
    /\ est' = [est EXCEPT !.phase = "fetching", !.clock = @ + est.waitMs + late,
                          !.slept = est.waitMs + late, !.attempt = @ + 1,
                          !.requests = @ + 1]
    /\ UNCHANGED <<build, zone, now, state, lowLevelTracked, timerAt, events, afterCall, run,
                   lastOp, morning, nudge, svc>>

InitEst ==
  /\ build = "rhythm"
  /\ zone = "fixed"
  /\ now = Start0
  /\ state = makeDefaultState(Start0)
  /\ lowLevelTracked = FALSE
  /\ timerAt = Start0 + MsUntilNextBoundary(makeDefaultState(Start0), Start0)
  /\ events = 0
  /\ afterCall = FALSE
  /\ run = 0
  /\ lastOp = Idle
  /\ morning = MorningOff
  /\ nudge = NudgeOff
  /\ svc = SvcOff
  /\ est = EstOff

NextEst == EstStart \/ EstRespond \/ EstNetworkError \/ EstWake

SpecEst == InitEst /\ [][NextEst]_vars

\* The Retry-After duration the response asks for, 0 when it asks for none.
RetryAfterOf(res, receivedAt) ==
  IF res.retryAfter.kind = "seconds" THEN res.retryAfter.v
  ELSE IF res.retryAfter.kind = "date" THEN Max(0, res.retryAfter.v - receivedAt)
  ELSE 0

\* The percentage a body gives.
PercentOf(body) ==
  IF body.percent_full # NoNumber THEN body.percent_full ELSE body.fill_fraction

\* C29: a 429 followed by a successful retry: two requests, a wait between
\* them of at least the Retry-After duration, or of at least the backoff of
\* the first attempt (1200 ms) when no positive duration is given, and the
\* percentage of the second response clamped to [0,100].
C29_RetryAfter429 ==
  (est.phase = "returned" /\ est.responses[1].status = 429) =>
    /\ est.requests = 2
    /\ Len(est.responses) = 2
    /\ LET asked == RetryAfterOf(est.responses[1], est.received)
       IN IF asked > 0 THEN est.slept >= asked
          ELSE est.slept >= Min(20000, 1200) /\ est.slept <= Min(20000, 1200) + 449 + 7
    /\ est.result = Max(0, Min(100, PercentOf(est.responses[2].body)))
    /\ (est.responses[1].retryAfter = [kind |-> "seconds", v |-> 2000]
        /\ est.responses[2].body.percent_full = 67) =>
         (est.result = 67 /\ est.slept >= 2000)

\* C29 witness: 429 with Retry-After: 2, then percent_full 67.
C29_Witness ==
  /\ est.phase = "returned"
  /\ Len(est.responses) = 2
  /\ est.responses[1].status = 429
  /\ est.responses[1].retryAfter = [kind |-> "seconds", v |-> 2000]
  /\ est.responses[2].body.percent_full = 67
  /\ est.result = 67

Failure(res) ==
  \/ res.status # 429 /\ ~(res.status >= 200 /\ res.status <= 299)
  \/ /\ res.status >= 200 /\ res.status <= 299
     /\ res.body.percent_full = NoNumber
     /\ res.body.fill_fraction = NoNumber

\* C30: never more than two requests; two 429 answers end in a rate-limit
\* error that carries the wait computed from the second one; any other
\* non-2xx answer, and a 2xx answer with neither number, ends the estimation
\* with a generic error at the request it answers.
C30_AtMostTwoRequests ==
  /\ est.requests <= 2
  /\ Len(est.responses) <= est.requests
  /\ (Len(est.responses) = 2 /\ est.responses[1].status = 429
      /\ est.responses[2].status = 429) =>
       /\ est.phase = "failed"
       /\ est.error = "RateLimitError"
       /\ est.retryAfterMs = est.lastWaitMs
       /\ LET asked == RetryAfterOf(est.responses[2], est.clock)
          IN IF asked > 0 THEN est.retryAfterMs = asked
             ELSE est.retryAfterMs >= 2400 /\ est.retryAfterMs <= 2400 + 449
  /\ \A i \in 1..Len(est.responses) :
       Failure(est.responses[i]) =>
         /\ est.phase = "failed"
         /\ est.error = "Error"
         /\ est.requests = i
         /\ Len(est.responses) = i

\* C30 witness: two 429 answers have ended in the rate-limit error.
C30_Witness ==
  /\ est.phase = "failed"
  /\ est.error = "RateLimitError"
  /\ est.requests = 2
  /\ est.retryAfterMs > 0

\* ------------------------------------------- logging under the morning prompt
\* The hooks after a log: the rhythm build notes the day and the instant.
MorningHooks(h, d) == IF build = "rhythm" THEN LogHooks(h, d) ELSE h

\* The prompt after a log: the rhythm build runs the check again when the
\* log changed a dependency of its effect.
MorningAfterLog(s, m, h0, h1, d) ==
  IF EffectDeps(h0) # EffectDeps(h1) THEN checkMorningReset(s, m, d) ELSE m

\* Track button with the prompt away.
MorningTrack ==
  \E f \in Fractions :
    /\ ~morning.show
    /\ MainScreen
    /\ f # state.remaining
    /\ events < MaxEvents
    /\ events' = events + 1
    /\ state' = commitScanToDailyProgress(state, f, now)
    /\ lowLevelTracked' = (f * 10 <= FracDen)
    /\ nudge' = MorningHooks(nudge, now)
    /\ morning' = MorningAfterLog(state', morning, nudge, nudge', now)
    /\ lastOp' = Op("setBottleLevel", f)
    /\ afterCall' = TRUE
    /\ run' = -1
    /\ UNCHANGED <<build, zone, now, timerAt, svc, est>>

\* Quick add with the prompt away.
MorningQuickAdd ==
  \E ml \in ExtraChoices :
    /\ ~morning.show
    /\ MainScreen
    /\ events < MaxEvents
    /\ events' = events + 1
    /\ state' = AddExtraOp(state, ml, now)
    /\ nudge' = MorningHooks(nudge, now)
    /\ morning' = MorningAfterLog(state', morning, nudge, nudge', now)
    /\ lastOp' = Op("addExtra", ml)
    /\ afterCall' = TRUE
    /\ run' = -1
    /\ UNCHANGED <<build, zone, now, lowLevelTracked, timerAt, svc, est>>

NextMorning ==
  \/ MorningTick
  \/ MorningVisible
  \/ MorningConfirm
  \/ MorningEditWake
  \/ MorningTrack
  \/ MorningQuickAdd

SpecMorning == InitMorning /\ [][NextMorning]_vars

\* ------------------------------------------------- the consistency score
SpreadWeights == <<18, 16, 14, 12, 10>>

\* computeDebloatEloBreakdown, one day: the weights of the windows with a hit
\* (an entry without window arrays reads as no hit).
spreadScore(log, k) ==
  LET hits == WindowsOf(log, k).hits
      w(i) == IF hits[i] > 0 THEN SpreadWeights[i] ELSE 0
  IN w(1) + w(2) + w(3) + w(4) + w(5)

\* ------------------------------------------------- the scan and its requests
\* The scan as the component holds it: scanState, scanError, the cooldown,
\* the open file picker, pendingRemaining, scanAbortRef (the id of a
\* controller, 0 for null), the estimations that have not settled (each with
\* the id of its controller, the await it stands at, its attempt and whether
\* its controller was aborted), the number of controllers made so far, and
\* the handler or continuation that ran last (for a cancel, the await the
\* request of the handle stood at).
ScanOff ==
  [scanState |-> "idle", scanError |-> "none", cooling |-> FALSE, picker |-> FALSE,
   pendingRemaining |-> FracDen, scanAbortRef |-> 0, reqs |-> {}, started |-> 0,
   last |-> [op |-> "none", id |-> 0, aborted |-> FALSE, at |-> "none"]]

MaxScans == 3

MaxScanTracks == 1

\* percent_full of a successful answer.
ScanPercents == {0, 67}

Ran(op, id, aborted) == [op |-> op, id |-> id, aborted |-> aborted, at |-> "none"]

\* The await the request of the controller id stands at.
StageOf(u, id) ==
  IF \E c \in u.reqs : c.id = id THEN (CHOOSE c \in u.reqs : c.id = id).stage ELSE "none"

\* Variant: the catch does not look at the signal.
CaughtUnchecked(u, c, err) ==
  [u EXCEPT !.scanState = "error", !.scanError = err,
            !.cooling = (err = "RateLimitError") \/ @,
            !.scanAbortRef = 0, !.reqs = @ \ {c},
            !.last = Ran("settle", c.id, c.aborted)]

\* catch and finally of the request c: an aborted signal resets the scan
\* silently, another error is shown and a rate-limit error starts the
\* cooldown; the handle is cleared in every case.
Caught(u, c, err) ==
  IF c.aborted
  THEN [u EXCEPT !.scanState = "idle", !.scanError = "none",
                 !.scanAbortRef = 0, !.reqs = @ \ {c},
                 !.last = Ran("settle", c.id, TRUE)]
  ELSE [u EXCEPT !.scanState = "error", !.scanError = err,
                 !.cooling = (err = "RateLimitError") \/ @,
                 !.scanAbortRef = 0, !.reqs = @ \ {c},
                 !.last = Ran("settle", c.id, FALSE)]

\* The try block after estimatePercentFull has returned percent, and finally.
Scanned(u, c, percent) ==
  [u EXCEPT !.pendingRemaining = clamp(percent * 100, 0, FracDen),
            !.scanState = "done", !.scanError = "none",
            !.scanAbortRef = 0, !.reqs = @ \ {c},
            !.last = Ran("settle", c.id, c.aborted)]

ScanFrame ==
  UNCHANGED <<build, zone, now, state, timerAt, events, afterCall, run, lastOp, morning,
              nudge, svc>>

\* Scan button (disabled while scanState is "scanning" and during the
\* cooldown display): the picker opens unless the cooldown is still running.
startScanPick ==
  /\ est.scanState # "scanning"
  /\ ~est.picker
  /\ est' = IF est.cooling
            THEN [est EXCEPT !.scanError = "cooldown", !.scanState = "idle",
                             !.last = Ran("startScanPick", 0, FALSE)]
            ELSE [est EXCEPT !.scanError = "none", !.scanState = "picking",
                             !.picker = TRUE, !.last = Ran("startScanPick", 0, FALSE)]
  /\ UNCHANGED lowLevelTracked
  /\ ScanFrame

\* The picker closes: with no file the scan is idle; with a file a new
\* controller becomes the handle and the estimation starts by reading it.
onScanFileChange ==
  \E file \in BOOLEAN :
    /\ est.picker
    /\ est.started < MaxScans
    /\ est' = IF ~file
              THEN [est EXCEPT !.picker = FALSE, !.scanState = "idle",
                               !.last = Ran("onScanFileChange", 0, FALSE)]
              ELSE [est EXCEPT !.picker = FALSE, !.started = @ + 1,
                               !.scanAbortRef = est.started + 1,
                               !.scanState = "scanning", !.scanError = "none",
                               !.reqs = @ \cup {[id |-> est.started + 1, stage |-> "file",
                                                 attempt |-> 0, aborted |-> FALSE]},
                               !.last = Ran("onScanFileChange", est.started + 1, FALSE)]
    /\ UNCHANGED lowLevelTracked
    /\ ScanFrame

\* The requests the abort of the controller id rejects at once: fetch and
\* sleep listen to the signal, and their rejection is handled before any
\* other event.
Rejected(u, id) == {c \in u.reqs : c.id = id /\ c.stage \in {"fetch", "sleep"}}

\* Cancel button (shown while scanState is "scanning"): the controller in the
\* handle is aborted, the handle cleared, the scan idle. A request at fetch or
\* sleep is rejected and its catch and finally run; one still reading the
\* file goes on with an aborted signal.
cancelScan ==
  /\ est.scanState = "scanning"
  /\ est' = [est EXCEPT
               !.scanAbortRef = 0, !.scanState = "idle", !.scanError = "none",
               !.reqs = {IF c.id = est.scanAbortRef THEN [c EXCEPT !.aborted = TRUE] ELSE c
                         : c \in @ \ Rejected(est, est.scanAbortRef)},
               !.last = [Ran("cancelScan", est.scanAbortRef, TRUE)
                           EXCEPT !.at = StageOf(est, est.scanAbortRef)]]
  /\ UNCHANGED lowLevelTracked
  /\ ScanFrame

\* fileToDataUrl and downscaleDataUrl have ended: estimatePercentFull is
\* called, and its fetch rejects at once when the signal is aborted.
ScanFileRead ==
  \E c \in est.reqs :
    /\ c.stage = "file"
    /\ est' = IF c.aborted THEN Caught(est, c, "AbortError")
              ELSE [est EXCEPT !.reqs = (@ \ {c}) \cup {[c EXCEPT !.stage = "fetch",
                                                                  !.attempt = 1]},
                               !.last = Ran("fetch", c.id, FALSE)]
    /\ UNCHANGED lowLevelTracked
    /\ ScanFrame

\* The service answers a request with a fill level.
ScanAnswer ==
  \E c \in est.reqs, percent \in ScanPercents :
    /\ c.stage = "fetch"
    /\ est' = Scanned(est, c, percent)
    /\ lowLevelTracked' = FALSE
    /\ ScanFrame

\* The service answers 429: a wait when an attempt is left, else the
\* rate-limit error.
ScanLimited ==
  \E c \in est.reqs :
    /\ c.stage = "fetch"
    /\ est' = IF attemptsLeft(c.attempt)
              THEN [est EXCEPT !.reqs = (@ \ {c}) \cup {[c EXCEPT !.stage = "sleep"]},
                               !.last = Ran("sleep", c.id, FALSE)]
              ELSE Caught(est, c, "RateLimitError")
    /\ UNCHANGED lowLevelTracked
    /\ ScanFrame

\* Another answer, or none: estimatePercentFull throws.
ScanFails ==
  \E c \in est.reqs :
    /\ c.stage = "fetch"
    /\ est' = Caught(est, c, "Error")
    /\ UNCHANGED lowLevelTracked
    /\ ScanFrame

\* The wait ends and the next request is issued.
ScanWake ==
  \E c \in est.reqs :
    /\ c.stage = "sleep"
    /\ est' = [est EXCEPT !.reqs = (@ \ {c}) \cup {[c EXCEPT !.stage = "fetch",
                                                             !.attempt = @ + 1]},
                          !.last = Ran("fetch", c.id, FALSE)]
    /\ UNCHANGED lowLevelTracked
    /\ ScanFrame

\* scanCooldownUntil is reached.
ScanCooldownEnds ==
  /\ est.cooling
  /\ est' = [est EXCEPT !.cooling = FALSE, !.last = Ran("cooldown", 0, FALSE)]
  /\ UNCHANGED lowLevelTracked
  /\ ScanFrame

\* Track button: the pending fraction is committed.
ScanTrack ==
  /\ MainScreen
  /\ est.pendingRemaining # state.remaining
  /\ events < MaxScanTracks
  /\ events' = events + 1
  /\ state' = commitScanToDailyProgress(state, est.pendingRemaining, now)
  /\ lowLevelTracked' = (est.pendingRemaining * 10 <= FracDen)
  /\ lastOp' = Op("setBottleLevel", est.pendingRemaining)
  /\ est' = [est EXCEPT !.pendingRemaining = IF @ <= EmptyEps THEN FracDen ELSE @,
                        !.last = Ran("track", 0, FALSE)]
  /\ UNCHANGED <<build, zone, now, timerAt, afterCall, run, morning, nudge, svc>>

InitScan ==
  /\ build \in {"rhythm", "classic"}
  /\ zone = "fixed"
  /\ now = Start0
  /\ state = makeDefaultState(Start0)
  /\ lowLevelTracked = FALSE
  /\ timerAt = Start0 + MsUntilNextBoundary(makeDefaultState(Start0), Start0)
  /\ events = 0
  /\ afterCall = FALSE
  /\ run = 0
  /\ lastOp = Idle
  /\ morning = MorningOff
  /\ nudge = NudgeOff
  /\ svc = SvcOff
  /\ est = ScanOff

NextScan ==
  \/ startScanPick
  \/ onScanFileChange
  \/ cancelScan
  \/ ScanFileRead
  \/ ScanAnswer
  \/ ScanLimited
  \/ ScanFails
  \/ ScanWake
  \/ ScanCooldownEnds
  \/ ScanTrack

SpecScan == InitScan /\ [][NextScan]_vars

\* ------------------------------------------------------------ the snapping
SnapModes == {"quarters", "tenths", "free"}

\* Pointer ratios, in steps of 0.005 from -0.02 to 1.02.
SnapInputs == {50 * i : i \in -4..204}

\* Variant: Math.floor in place of Math.round.
snapValueFloor(v, snap) ==
  LET clamped == clamp(v, 0, FracDen)
      step == IF snap = "tenths" THEN 1000 ELSE 2500
  IN IF snap = "free" THEN clamped ELSE (clamped \div step) * step

\* The ratios halfway between two tenths whose quotient by 0.1, computed in
\* doubles, lies under the half (0.15 / 0.1 = 1.4999999999999998): Math.round
\* takes them down; the other halves go up.
TenthsDown == {1500, 3500, 9500}

snapValue(v, snap) ==
  LET clamped == clamp(v, 0, FracDen)
      step == IF snap = "tenths" THEN 1000 ELSE 2500
  IN IF snap = "free" THEN clamped
     ELSE IF snap = "tenths" /\ clamped \in TenthsDown THEN (clamped \div step) * step
     ELSE RoundDiv(clamped, step) * step

\* The meniscus is dragged to a ratio of the bottle's height: the snapped
\* value, capped by the level of the bottle, becomes the pending fraction.
\* lastOp keeps the ratio and the mode, run the snapped value.
setPendingFromBottlePointer ==
  \E ratio \in SnapInputs, snap \in SnapModes :
    /\ run' = snapValue(ratio, snap)
    /\ est' = [est EXCEPT !.pendingRemaining = Min(snapValue(ratio, snap), state.remaining),
                          !.last = Ran("pointer", 0, FALSE)]
    /\ lastOp' = [Op("snapValue", ratio) EXCEPT !.undid = snap]
    /\ UNCHANGED <<build, zone, now, state, lowLevelTracked, timerAt, events, afterCall,
                   morning, nudge, svc>>

NextSnap == setPendingFromBottlePointer

SpecSnap == InitScan /\ [][NextSnap]_vars

TypeOK ==
  /\ lowLevelTracked \in BOOLEAN
  /\ state.remaining \in 0..FracDen
  /\ state.completedBottles >= 0
  /\ Len(state.history) <= HistoryCap

\* ------------------------------------------------------------------ claims
Today == TodayKey(state, now)

Total == totalConsumedFromState(state)

\* The fields a mutation works on.
Core(s) ==
  [remaining |-> s.remaining, completedBottles |-> s.completedBottles,
   carryML |-> s.carryML, extraML |-> s.extraML, history |-> s.history]

IsFresh(s) ==
  /\ s.completedBottles = 0
  /\ s.remaining = FracDen
  /\ s.carryML = 0
  /\ s.extraML = 0
  /\ s.history = <<>>

\* The state a handler works on when the rollover check comes first.
Rolled(s) == IF Stale(s, now) THEN FreshDay(s, TodayKey(s, now)) ELSE s

ApplyOp(name, arg, s) ==
  CASE name = "setBottleLevel" -> commitScanToDailyProgress(s, arg, now)
    [] name = "addExtra" -> AddExtraOp(s, arg, now)
    [] name = "undo" -> UndoOp(s, now)
    [] name = "refill" -> handleRefill(s, arg, now)
    [] name = "switchBottle" -> switchBottleKeepingConsumed(s)
    [] OTHER -> s

MutatingOps == {"setBottleLevel", "addExtra", "undo", "refill", "switchBottle"}

\* C1: when a mutating operation (setBottleLevel, addExtra, undo, refill,
\* switchBottle) has just completed, the stored dayKey is today's, and if the
\* day was stale at invocation the result is the operation applied to the
\* fresh-day values.
C1_RolloverFirst ==
  lastOp.op \in MutatingOps =>
    /\ state.dayKey = Today
    /\ lastOp.stale =>
         Core(state) = Core(ApplyOp(lastOp.op, lastOp.arg, Rolled(lastOp.pre)))

\* C2: a rollover run by the timer or by a visibility event leaves an entry
\* that dailyLog already holds under the previous dayKey exactly as it was.
C2_SnapshotNotOverwritten ==
  (/\ lastOp.op \in {"timer", "visibility"}
   /\ lastOp.stale
   /\ lastOp.pre.dayKey \in DOMAIN lastOp.pre.dailyLog) =>
    /\ lastOp.pre.dayKey \in DOMAIN state.dailyLog
    /\ state.dailyLog[lastOp.pre.dayKey] = lastOp.pre.dailyLog[lastOp.pre.dayKey]

\* C3: when the day boundary is crossed between two consecutive calls
\* (setBottleLevel or addExtra, no other handler in between), the second call
\* works on fresh-day values and dailyLog holds the prior day's entry with
\* that day's final total.
C3_RolloverBetweenCalls ==
  (lastOp.op \in Calls /\ lastOp.stale /\ lastOp.afterCall) =>
    /\ Core(state) = Core(ApplyOp(lastOp.op, lastOp.arg, Rolled(lastOp.pre)))
    /\ lastOp.pre.dayKey \in DOMAIN state.dailyLog
    /\ state.dailyLog[lastOp.pre.dayKey].consumedML = totalConsumedFromState(lastOp.pre)

\* C4: a rollover check by the timer or a visibility event resets the day's
\* fields and keeps the configuration when the day was stale, and changes
\* nothing when it was current.
C4_RolloverFrame ==
  lastOp.op \in {"timer", "visibility"} =>
    IF lastOp.stale
    THEN /\ state.dayKey = Today
         /\ IsFresh(state)
         /\ state.celebrate = NoCelebrate
         /\ state.goalML = lastOp.pre.goalML
         /\ state.bottleML = lastOp.pre.bottleML
         /\ state.wakeMins = lastOp.pre.wakeMins
         /\ state.sleepMins = lastOp.pre.sleepMins
    ELSE state = lastOp.pre

C4_Witness ==
  /\ lastOp.op = "timer"
  /\ lastOp.stale
  /\ lastOp.pre.completedBottles > 0
  /\ lastOp.pre.history # <<>>

\* C5: with goalML > 0 and bottleML > 0 the total is
\* min(goalML, completedBottles*bottleML + round((1-remaining)*bottleML)
\*     + carryML + extraML) and lies in 0..goalML.
C5_TotalInRange ==
  (state.goalML > 0 /\ state.bottleML > 0) =>
    LET raw == state.completedBottles * state.bottleML
               + RoundDiv((FracDen - state.remaining) * state.bottleML, FracDen)
               + state.carryML + state.extraML
    IN /\ Total = Min(state.goalML, raw)
       /\ 0 <= Total
       /\ Total <= state.goalML

C5_Witness ==
  /\ state.completedBottles * state.bottleML + state.extraML > state.goalML
  /\ state.completedBottles > ceilDiv(state.goalML, state.bottleML)
  /\ lastOp.op = "editGoal"

\* The fields undo is to restore: the four volumes and every day's
\* per-window hit counts and volumes (absent arrays read as zeros).
Tracked(s) ==
  [remaining |-> s.remaining, completedBottles |-> s.completedBottles,
   carryML |-> s.carryML, extraML |-> s.extraML]

SameWindows(a, b) ==
  \A k \in (DOMAIN a.dailyLog) \cup (DOMAIN b.dailyLog) :
    WindowsOf(a.dailyLog, k) = WindowsOf(b.dailyLog, k)

UndoneCall == lastOp.op = "undo" /\ lastOp.undid \in Calls

\* C6, every state: for every reachable state s and every mutation m
\* (setBottleLevel or addExtra), undo right after m restores s on the tracked
\* fields and on the window attributions.
C6_UndoInverseAnyState ==
  UndoneCall => Tracked(state) = Tracked(lastOp.base) /\ SameWindows(state, lastOp.base)

\* C6, current day: undo right after a mutation m (setBottleLevel or addExtra)
\* invoked in a state s whose stored dayKey is the current one restores s on
\* the tracked fields and on the window attributions.
C6_UndoInverse ==
  (UndoneCall /\ ~lastOp.baseStale) =>
    Tracked(state) = Tracked(lastOp.base) /\ SameWindows(state, lastOp.base)

C6_Witness ==
  /\ UndoneCall
  /\ ~lastOp.baseStale
  /\ build = "rhythm"
  /\ lastOp.undid = "setBottleLevel"
  /\ lastOp.base.history # <<>>
  /\ lastOp.pre.completedBottles > lastOp.base.completedBottles
  /\ ~SameWindows(lastOp.pre, lastOp.base)

\* The state setBottleLevel worked on, and the clamped fraction it was given.
CallBase == Rolled(lastOp.pre)

CallFrac == clamp(lastOp.arg, 0, FracDen)

Cap(s) == ceilDiv(s.goalML, s.bottleML)

\* C7: the history never holds more than 50 entries; a setBottleLevel or
\* addExtra call appends one entry holding the values it worked on, and once
\* the cap is passed the oldest entries are the ones dropped, the rest keeping
\* their order.
C7_HistoryBounded ==
  /\ Len(state.history) <= HistoryCap
  /\ lastOp.op \in Calls =>
       LET h == CallBase.history
           h2 == state.history
           drop == Len(h) + 1 - Len(h2)
           e == h2[Len(h2)]
       IN /\ Len(h2) = Min(Len(h) + 1, HistoryCap)
          /\ e.prevRemaining = CallBase.remaining
          /\ e.prevCompleted = CallBase.completedBottles
          /\ e.prevCarry = CallBase.carryML
          /\ e.prevExtra = CallBase.extraML
          /\ \A i \in 1..(Len(h2) - 1) : h2[i] = h[i + drop]

C7_Witness ==
  /\ lastOp.op \in Calls
  /\ ~lastOp.stale
  /\ Len(lastOp.pre.history) = HistoryCap
  /\ state.history[1] = lastOp.pre.history[2]
  /\ state.history[1] # lastOp.pre.history[1]

\* C8: setBottleLevel with a clamped fraction <= 0.0001 adds one to
\* completedBottles unless it is at ceil(goalML/bottleML) and leaves
\* remaining = 1; with a larger fraction it keeps completedBottles and sets
\* remaining to the fraction; completedBottles never exceeds the cap.
C8_BottleCompletion ==
  /\ lastOp.op = "setBottleLevel" =>
       IF CallFrac <= EmptyEps
       THEN /\ state.completedBottles =
                 IF CallBase.completedBottles = Cap(CallBase)
                 THEN CallBase.completedBottles ELSE CallBase.completedBottles + 1
            /\ state.remaining = FracDen
       ELSE /\ state.completedBottles = CallBase.completedBottles
            /\ state.remaining = CallFrac
  /\ state.completedBottles <= Cap(state)

\* C9: from a fresh day with goal 2000 ml and bottle 500 ml, the k-th of four
\* consecutive setBottleLevel(0, track) calls leaves completedBottles = k and
\* the total at 500*k, and emits a goal celebration iff k = 4.
C9_FourBottles ==
  (lastOp.op = "setBottleLevel" /\ run \in 1..4) =>
    /\ state.completedBottles = run
    /\ Total = 500 * run
    /\ (state.celebrate.type = "goal") <=> (run = 4)

C9_Witness == lastOp.op = "setBottleLevel" /\ run = 4 /\ state.celebrate.type = "goal"

\* C10: after setBottleLevel, a total at or over the goal emits a goal
\* celebration; otherwise a call that completed a bottle emits a bottle
\* celebration; the event carries the percent of goal (0..100) and the
\* consumed volume; a call that does neither leaves celebrate as it was.
C10_Celebration ==
  lastOp.op = "setBottleLevel" =>
    LET pct == RoundDiv(Total * 100, state.goalML)
        event(type) == [type |-> type, pct |-> pct, consumedML |-> Total]
    IN /\ pct \in 0..100
       /\ IF Total >= state.goalML THEN state.celebrate = event("goal")
          ELSE IF CallFrac <= EmptyEps THEN state.celebrate = event("bottle")
          ELSE state.celebrate = lastOp.pre.celebrate

C10_Witness ==
  /\ lastOp.op = "setBottleLevel"
  /\ CallFrac <= EmptyEps
  /\ Total >= state.goalML
  /\ state.celebrate.type = "goal"
  /\ state.completedBottles > lastOp.pre.completedBottles

\* C11: addExtra(ml) on a current day sets extraML to clamp(extraML + ml, 0,
\* 100000) and leaves remaining, completedBottles and carryML as they were;
\* from a fresh day with a 500 ml bottle, addExtra(250) gives a total of 250
\* with remaining still 1.
C11_AddExtraFrame ==
  (lastOp.op = "addExtra" /\ ~lastOp.stale) =>
    /\ state.extraML = clamp(lastOp.pre.extraML + lastOp.arg, 0, MaxML)
    /\ state.remaining = lastOp.pre.remaining
    /\ state.completedBottles = lastOp.pre.completedBottles
    /\ state.carryML = lastOp.pre.carryML
    /\ (IsFresh(lastOp.pre) /\ state.bottleML = 500 /\ lastOp.arg = 250) =>
         (Total = 250 /\ state.remaining = FracDen)

C11_Witness ==
  /\ lastOp.op = "addExtra"
  /\ ~lastOp.stale
  /\ lastOp.pre.extraML = 250
  /\ lastOp.pre.remaining = 5000
  /\ lastOp.pre.completedBottles = 1
  /\ state.extraML = 500

\* The state in which a bottle change began: before the first of the size
\* edits that the switch directly follows, or the state the switch was
\* invoked in when no edit precedes it.
SwitchBase == IF lastOp.undid = "editBottle" THEN lastOp.base ELSE lastOp.pre

\* C12: after a bottle switch the total equals the total before the bottle
\* change began, carryML holds that total, and completedBottles = 0,
\* remaining = 1, extraML = 0, history = <<>>.
C12_SwitchKeepsTotal ==
  lastOp.op = "switchBottle" =>
    /\ Total = totalConsumedFromState(SwitchBase)
    /\ state.carryML = totalConsumedFromState(SwitchBase)
    /\ state.completedBottles = 0
    /\ state.remaining = FracDen
    /\ state.extraML = 0
    /\ state.history = <<>>

\* The state right after refill's commit of the pending fraction.
Committed == commitScanToDailyProgress(lastOp.pre, lastOp.arg, now)

\* C13: refill commits the pending fraction as a track event, then sets
\* remaining = 1 and carryML = max(0, consumed - completedBottles*bottleML -
\* extraML); the total after refill equals the total right after the commit.
C13_RefillKeepsTotal ==
  lastOp.op = "refill" =>
    LET consumed == totalConsumedFromState(Committed)
    IN /\ state.remaining = FracDen
       /\ state.carryML =
            Max(0, consumed - Committed.completedBottles * Committed.bottleML
                     - Committed.extraML)
       /\ state.completedBottles = Committed.completedBottles
       /\ state.extraML = Committed.extraML
       /\ state.history = Committed.history
       /\ Total = consumed

C13_Witness ==
  /\ lastOp.op = "refill"
  /\ lastOp.arg = 1000
  /\ state.completedBottles = 1
  /\ state.carryML = 450
  /\ Total = 950

\* C14: every firing of the rollover timer runs the check and re-arms the
\* timer for a later instant no more than a day ahead, and a stale state
\* eventually becomes current.
C14_TimerRenewsAndRolls ==
  /\ [](lastOp.op = "timer" =>
          /\ ~Stale(state, now)
          /\ timerAt > now
          /\ timerAt <= now + DayMins)
  /\ (Stale(state, now) ~> ~Stale(state, now))

C14_Witness ==
  /\ lastOp.op = "timer"
  /\ lastOp.stale
  /\ lastOp.pre.completedBottles > 0
  /\ state.dayKey = Today
  /\ timerAt > now

\* The minute of the day at which the stored configuration puts the boundary.
BoundaryMins(s) ==
  IF build = "rhythm" THEN wakeBoundaryMins(s.wakeMins) ELSE sleepBoundaryMins(s.sleepMins)

\* C15: the pending timer's fire time is a boundary crossing of the stored
\* configuration, and right after a wake or sleep edit that moved the boundary
\* it is the next crossing computed from the new configuration.
C15_TimerFollowsConfig ==
  /\ timerAt % DayMins = BoundaryMins(state)
  /\ (/\ lastOp.op \in {"editWake", "editSleep"}
      /\ BoundaryMins(state) # BoundaryMins(lastOp.pre)) =>
       timerAt = now + MsUntilNextBoundary(state, now)

\* The number of the boundary-to-boundary interval an instant lies in, the
\* boundary being the local clock time b of each day.
Interval(t, b) == (Local(t) - b) \div DayMins

\* C16: for the stored boundary, two instants have the same DayKey iff they
\* lie in the same boundary-to-boundary interval; the DayKey of t differs from
\* that of t + 24h; the previous DayKey of t is the DayKey of t - 24h.
C16_DayKeyIntervals ==
  /\ \A u \in DayInstants :
       (TodayKey(state, now) = TodayKey(state, u))
         <=> (Interval(now, BoundaryMins(state)) = Interval(u, BoundaryMins(state)))
  /\ TodayKey(state, now) # TodayKey(state, now + DayMins)
  /\ PrevDayKey(state, now) = TodayKey(state, now - DayMins)

\* C17: the time until the next boundary is in 0..24h, is 24h on the boundary,
\* and leads to the first instant with another DayKey; the DayKey at the
\* instant the timer fires differs from the one at scheduling time.
C17_TimeUntilNextBoundary ==
  LET ms == MsUntilNextBoundary(state, now)
  IN /\ ms >= 0
     /\ ms <= DayMins
     /\ (Local(now) % DayMins = BoundaryMins(state)) => ms = DayMins
     /\ TodayKey(state, now + ms) # TodayKey(state, now)
     /\ \A u \in now..(now + ms - 1) : TodayKey(state, u) = TodayKey(state, now)
     /\ lastOp.op = "fired" => TodayKey(lastOp.pre, now) # lastOp.pre.dayKey

\* ---- pacing claims
\* The window of the stored schedule: its start, its length in minutes, and
\* the instant of day 10 that lies e minutes after the wake time.
WinStart == clamp(state.wakeMins, 0, 1439)

WinLen ==
  LET end0 == clamp(state.sleepMins, 0, 2879)
  IN (IF end0 <= WinStart THEN end0 + DayMins ELSE end0) - WinStart

WinInstant(e) == 10 * 1440 + WinStart + e

PctIn(e) == expectedPctAt(WinInstant(e), state.wakeMins, state.sleepMins)

\* C18: for every wake/sleep configuration, clamped windows included, the
\* expected fraction stays in [0,1], never decreases as the instant advances
\* from wake to sleep, is 0 at the wake instant and 1 at the sleep instant.
C18_PaceCurveShape ==
  lastOp.op = "expected" =>
    /\ \A e \in 0..WinLen :
         /\ PctIn(e).n >= 0
         /\ PctIn(e).n <= PctIn(e).d
    /\ \A e \in 0..(WinLen - 1) : FracLeq(PctIn(e), PctIn(e + 1))
    /\ PctIn(0).n = 0
    /\ PctIn(WinLen).n = PctIn(WinLen).d

\* C19: at every instant whose minute-of-day is before the wake time (the
\* window not reaching into the following day) the expected fraction is 0;
\* at every instant at or after the sleep time it is 1.
C19_OutsideWindow ==
  lastOp.op = "expected" =>
    LET m == minutesSinceMidnight(now)
        end == WinStart + WinLen
        f == expectedPctAt(now, state.wakeMins, state.sleepMins)
    IN /\ (end < DayMins /\ m < WinStart) => f.n = 0
       /\ (end < DayMins /\ m >= end) => f.n = f.d
       /\ (end >= DayMins /\ m < WinStart /\ m + DayMins >= end) => f.n = f.d

\* The scenario of C20: wake 8:00, sleep 22:00, goal 2000 ml, looked at 12:30.
Scenario20 ==
  /\ lastOp.op = "expected"
  /\ state.wakeMins = 480
  /\ state.sleepMins = 1320
  /\ state.goalML = 2000
  /\ minutesSinceMidnight(now) = 750

\* C20 as stated: in the scenario the expected volume lies between the 25%
\* and 50% checkpoints' values and is about 31.3% of the goal, about 626 ml.
C20_ScenarioAsStated ==
  Scenario20 =>
    /\ lastOp.arg >= 600
    /\ lastOp.arg <= 1100
    /\ lastOp.arg >= 626 - 20
    /\ lastOp.arg <= 626 + 20

\* C20: in the scenario the expected volume lies between the 25% and 50%
\* checkpoints' values and is 37.1% of the goal, 743 ml.
C20_Scenario ==
  Scenario20 =>
    /\ lastOp.arg >= 600
    /\ lastOp.arg <= 1100
    /\ lastOp.arg = 743

C20_Witness == Scenario20 /\ lastOp.arg = 743

\* ---- rhythm claims
\* The segment the specification assigns to an event at the current instant:
\* the window starts at the wake time on the date of the event's DayKey and
\* lasts until the sleep time, on the following day when that is not later.
SegmentOf(at) ==
  LET start == dayKeyByWake(at, state.wakeMins) * DayMins + WinStart
      elapsed == at - start
  IN IF elapsed < 0 THEN 0
     ELSE IF elapsed >= WinLen THEN 4
     ELSE clamp((5 * elapsed) \div WinLen, 0, 4)

LastEntry == state.history[Len(state.history)]

\* C21: for every wake/sleep window, the ones ending on the following day
\* included, an event's segment index is floor(elapsed / (duration / 5))
\* clamped to [0,4]: 0 before the window start, 4 at or after its end.
C21_SegmentIndex ==
  (build = "rhythm" /\ lastOp.op = "addExtra" /\ lastOp.arg >= RhythmMinMl) =>
    LastEntry.rhythmWindowIndex = SegmentOf(now)

\* The volume the last event contributed: the amount of a quick add, the
\* rise of the day's total for a tracked level.
Contributed ==
  IF lastOp.op = "addExtra" THEN lastOp.arg
  ELSE Max(0, Total - totalConsumedFromState(CallBase))

WindowsBefore == WindowsOf(lastOp.pre.dailyLog, Today)

WindowsAfter == WindowsOf(state.dailyLog, Today)

\* C22: a track or addExtra event of at least 120 ml adds 1 to the hit count
\* and its volume to the accumulated ml of exactly one segment; an event of
\* less changes no segment; the history entry carries a segment exactly when
\* the counters were incremented.
C22_MeaningfulEvents ==
  (build = "rhythm" /\ lastOp.op \in Calls) =>
    LET hit == {i \in 1..5 : WindowsAfter.hits[i] # WindowsBefore.hits[i]
                             \/ WindowsAfter.ml[i] # WindowsBefore.ml[i]}
    IN /\ Contributed >= RhythmMinMl =>
            \E i \in 1..5 :
              /\ hit = {i}
              /\ WindowsAfter.hits[i] = WindowsBefore.hits[i] + 1
              /\ WindowsAfter.ml[i] = WindowsBefore.ml[i] + Contributed
       /\ Contributed < RhythmMinMl => hit = {}
       /\ (LastEntry.rhythmWindowIndex # NoIdx) <=> (hit # {})
       /\ LastEntry.rhythmWindowIndex # NoIdx => hit = {LastEntry.rhythmWindowIndex + 1}

\* A tracked sip of 50 ml on top of an earlier hit leaves the segments alone.
C22_Witness ==
  /\ build = "rhythm"
  /\ lastOp.op = "setBottleLevel"
  /\ Contributed > 0
  /\ Contributed < RhythmMinMl
  /\ \E i \in 1..5 : WindowsBefore.hits[i] > 0
  /\ WindowsAfter = WindowsBefore

\* ---- daily log retention
LogDays(s) == DOMAIN s.dailyLog

\* C23: the daily log never holds more days than the build retains (365 or
\* 14), and an operation that drops a day drops only days older than every
\* day it keeps.
C23_LogBounded ==
  /\ Cardinality(LogDays(state)) <= Retention
  /\ lastOp.op # "idle" =>
       \A k \in LogDays(lastOp.pre) \ LogDays(state) :
         \A j \in LogDays(state) : k < j

Live(u) == {c \in u.reqs : ~c.aborted}

\* C31: a cancel leaves the scan idle with no error shown and changes neither
\* the pending fraction nor the consumption state; the cancelled request, when
\* it settles later, leaves the scan idle with no error and the pending
\* fraction and the consumption state as they were; a request whose
\* controller was aborted never stands at a fetch or a wait.
C31_CancelIsSilent ==
  /\ [][(est'.last.op = "cancelScan" \/ (est'.last.op = "settle" /\ est'.last.aborted)) =>
          /\ est'.scanState = "idle"
          /\ est'.scanError = "none"
          /\ est'.pendingRemaining = est.pendingRemaining
          /\ state' = state
          /\ lowLevelTracked' = lowLevelTracked
          /\ est'.cooling = est.cooling]_vars
  /\ [](\A c \in est.reqs : c.aborted => c.stage = "file")
  /\ [](est.last.op = "cancelScan" /\ est.last.at \in {"fetch", "sleep"}
          => \A c \in est.reqs : c.id # est.last.id)

\* C31 witness: after a scan has left 67% pending, the next one is cancelled
\* during its retry wait.
C31_Witness ==
  /\ est.last.op = "cancelScan"
  /\ est.last.at = "sleep"
  /\ est.scanState = "idle"
  /\ est.pendingRemaining = 6700
  /\ est.reqs = {}

\* C32: at most one estimation whose controller was not aborted is in flight
\* at any time.
C32_OneInFlight == Cardinality(Live(est)) <= 1

\* C32: only the newest request changes the pending fraction.
C32_OnlyNewestChanges ==
  [][est'.last.op = "settle" /\ est'.pendingRemaining # est.pendingRemaining
       => est'.last.id = est.started]_vars

\* C39: whenever an estimation whose controller was not aborted is in flight,
\* the scan state is "scanning" and the handle holds that controller.
C39_HandleFollowsRequest ==
  \A c \in Live(est) : est.scanState = "scanning" /\ est.scanAbortRef = c.id

\* C39: the settling of a cancelled request leaves the handle and the scan
\* state of a request in flight alone.
C39_OlderLeavesNewerAlone ==
  [][(est'.last.op = "settle" /\ est'.last.aborted /\ Live(est) # {})
       => est'.scanAbortRef = est.scanAbortRef /\ est'.scanState = est.scanState]_vars

\* ---- undo
\* The entry undo pops.
Popped == lastOp.pre.history[Len(lastOp.pre.history)]

\* C33: undo with an empty history changes nothing; otherwise it removes the
\* last history entry and restores remaining, completedBottles, carryML and
\* extraML to the values the entry recorded.
C33_UndoRestores ==
  lastOp.op = "undo" =>
    IF lastOp.pre.history = <<>> THEN state = lastOp.pre
    ELSE /\ state.history = SubSeq(lastOp.pre.history, 1, Len(lastOp.pre.history) - 1)
         /\ state.remaining = Popped.prevRemaining
         /\ state.completedBottles = Popped.prevCompleted
         /\ state.carryML = Popped.prevCarry
         /\ state.extraML = Popped.prevExtra

\* C33: when the popped entry carries a window, undo takes the recorded hit
\* and volume from that window of the day the event was logged on, not going
\* below zero, and leaves every other window of every day as it was.
C33_UndoWindows ==
  (lastOp.op = "undo" /\ lastOp.pre.history # <<>>) =>
    \A k \in (DOMAIN lastOp.pre.dailyLog) \cup (DOMAIN state.dailyLog) :
      \A j \in 1..5 :
        LET b == WindowsOf(lastOp.pre.dailyLog, k)
            a == WindowsOf(state.dailyLog, k)
        IN IF Popped.rhythmWindowIndex # NoIdx /\ k = lastOp.pre.dayKey
              /\ j = Popped.rhythmWindowIndex + 1
           THEN /\ a.hits[j] = Max(0, b.hits[j] - Popped.rhythmDelta)
                /\ a.ml[j] = Max(0, b.ml[j] - Popped.rhythmMlDelta)
           ELSE a.hits[j] = b.hits[j] /\ a.ml[j] = b.ml[j]

\* ---- snapping
\* C34: the snapped value of a ratio is the ratio clamped to [0,1] in the
\* free mode, and otherwise a multiple of the step of the mode (0.25 or 0.1)
\* within [0,1] that no other multiple is nearer to the clamped ratio than;
\* snapping the snapped value again returns it.
C34_SnapNearestIdempotent ==
  lastOp.op = "snapValue" =>
    LET v == clamp(lastOp.arg, 0, FracDen)
        step == IF lastOp.undid = "tenths" THEN 1000 ELSE 2500
    IN /\ IF lastOp.undid = "free" THEN run = v
          ELSE /\ run \in {k * step : k \in 0..(FracDen \div step)}
               /\ \A k \in 0..(FracDen \div step) :
                    Max(run - v, v - run) <= Max(k * step - v, v - k * step)
       /\ snapValue(run, lastOp.undid) = run

\* C34 witness: 0.26 snaps to 0.25 in quarters.
C34_Witness ==
  /\ lastOp.op = "snapValue"
  /\ lastOp.arg = 2600
  /\ lastOp.undid = "quarters"
  /\ run = 2500
  /\ est.pendingRemaining = 2500

\* ---- the day that ended
\* C35: after a handler has moved the stored dayKey on, the dailyLog entry of
\* the day that ended holds the window hit counts and volumes it held before,
\* and the day's spread score is what it was.
C35_RolloverKeepsWindows ==
  (build = "rhythm" /\ lastOp.op # "idle" /\ state.dayKey # lastOp.pre.dayKey) =>
    /\ WindowsOf(state.dailyLog, lastOp.pre.dayKey)
         = WindowsOf(lastOp.pre.dailyLog, lastOp.pre.dayKey)
    /\ spreadScore(state.dailyLog, lastOp.pre.dayKey)
         = spreadScore(lastOp.pre.dailyLog, lastOp.pre.dayKey)

\* ---- today's entry
\* C36: after a track, addExtra, undo, refill or switchBottle operation, an
\* entry that dailyLog holds for today's DayKey has the total of the live
\* state as its consumedML.
C36_TodayEntryIsTotal ==
  (lastOp.op \in MutatingOps /\ Today \in DOMAIN state.dailyLog) =>
    state.dailyLog[Today].consumedML = Total

\* ---- the stored day under configuration edits
\* C37: no step moves the stored dayKey to an earlier day.
C37_DayKeyNeverBack == [][state'.dayKey >= state.dayKey]_vars

\* C37: an edit of the wake or sleep time made on the current day leaves
\* completedBottles, remaining, carryML and extraML as they were.
C37_EditKeepsToday ==
  (lastOp.op \in {"editWake", "editSleep"} /\ ~lastOp.stale) =>
    Tracked(state) = Tracked(lastOp.pre)

\* ---- the confirmed morning reset
\* C38: when the prompt has been confirmed, the total the state held before
\* the reset is zero or is the consumedML of the dailyLog entry of the day the
\* state was stored under.
C38_ConfirmKeepsIntake ==
  lastOp.op = "morningConfirm" =>
    \/ totalConsumedFromState(lastOp.pre) = 0
    \/ /\ lastOp.pre.dayKey \in DOMAIN state.dailyLog
       /\ state.dailyLog[lastOp.pre.dayKey].consumedML = totalConsumedFromState(lastOp.pre)

\* ---- the tokens of the behind-pace nudges
\* The notification of one kind is pending for, or was delivered at, a
\* trigger time on the calendar day k.
NudgedOn(id, k) ==
  \/ svc[id] # NoKey /\ dayKey(svc[id]) = k
  \/ \E n \in svc.delivered : n.id = id /\ dayKey(n.at) = k

\* C40: lastLateBehindDayKey names a day only while the late notification is
\* pending for a trigger time on that day or after it was delivered on that
\* day; a late nudge cancelled before its trigger time marks no day.
C40_LateTokenAccurate ==
  nudge.lastLateBehindDayKey # NoKey => NudgedOn("late", nudge.lastLateBehindDayKey)

\* C40: lastBehindNudgeDayKey names a day only if the early notification was
\* delivered at a trigger time on that day.
C40_EarlyTokenAccurate ==
  nudge.lastBehindNudgeDayKey # NoKey =>
    \E n \in svc.delivered : n.id = "early" /\ dayKey(n.at) = nudge.lastBehindNudgeDayKey

====
